---- MODULE Spec2Model ----
(***************************************************************************)
(* A model of the WAMECU library (src/src/wamecu): the bias-probability    *)
(* law, the streaming estimators (EWMA, per-outcome Kalman), the legacy    *)
(* AdaptiveBetaEstimator object, the rolling anomaly diagnostics and the   *)
(* seeded simulators.                                                      *)
(*                                                                         *)
(* Numbers.  The code computes in IEEE doubles; the model computes in      *)
(* exact numbers: rationals <<num, den>> (den > 0, lowest terms) and, for  *)
(* the floor 1e-12 of ewma_estimator, quotients of polynomials in 1e-12.   *)
(* Every statement below is a statement about the real-number semantics of *)
(* the code, not about rounding.  TLC's integers are 32 bit wide: the      *)
(* input sets are chosen so that every intermediate product stays below    *)
(* 2^31 (TLC stops with an overflow error otherwise, it never wraps).      *)
(*                                                                         *)
(* Random numbers.  default_rng(seed) yields a stream that is fixed by the *)
(* seed.  The model does not compute the stream.  A real number that the   *)
(* generator yields (the phase, a normal deviate) is a symbol named after  *)
(* the seed and the position of the request, and beta_drift computes with  *)
(* linear forms over such symbols: a state of the model stands for the     *)
(* state of the code under every value the symbols can take.  An outcome   *)
(* of rng.choice is any outcome of positive probability, the same whenever *)
(* the same request is made at the same position of the same seed.         *)
(*                                                                         *)
(* Indices.  Python vectors are 0-based, TLA+ sequences 1-based: outcome   *)
(* o of the code is component o + 1 of a model vector.                     *)
(***************************************************************************)
EXTENDS Integers, Sequences, FiniteSets

VARIABLES
    fn,                      \* the library function of the current call
    pc,                      \* "idle", "loop", "returned" or "raised"
    n_outcomes,              \* argument n_outcomes of the current call
    beta,                    \* wamecu_probabilities: argument beta
    p_utils,                 \* result of utils.wamecu_probabilities
    p_simulation,            \* result of simulation.wamecu_probabilities
    observations,            \* ewma_estimator / kalman_tracker: obs_array
    alpha,                   \* ewma_estimator: alpha
    process_var,             \* kalman_tracker: process_var
    observation_var,         \* kalman_tracker: observation_var
    t,                       \* loop index of the estimator loops
    probabilities,           \* ewma_estimator: local probabilities
    state,                   \* kalman_tracker: local state
    covariance,              \* kalman_tracker: local covariance
    beta_history,            \* rows of beta_history written so far
    initial,                 \* initial_probabilities / initial_beta argument
    calls,                   \* the calls completed before the current one,
                             \* with their arguments and results
    draws,                   \* rolling_anomaly_scores: draws
    baseline_probabilities,  \* rolling_anomaly_scores: baseline_probabilities
    window_size,             \* rolling_anomaly_scores: window_size
    end,                     \* rolling_anomaly_scores: loop variable end
    records,                 \* rolling_anomaly_scores: records appended so far
    estimator,               \* an AdaptiveBetaEstimator object: n_outcomes,
                             \* smoothing, _probabilities, beta_
    outcome,                 \* how the last method call on it ended
    offered,                 \* observations offered to it so far
    config,                  \* beta_drift: the BetaDriftConfig argument
    rng,                     \* the generator made by default_rng: its seed
                             \* and the number of values drawn from it
    streams,                 \* for each seed, the outcomes rng.choice was
                             \* seen to yield, in order
    phase,                   \* beta_drift: phase, the symbol of the angle
                             \* drawn (<<>> outside a call)
    current,                 \* beta_drift: current, a vector of linear forms
    unclipped,               \* beta_drift: current just before np.clip
    betas,                   \* beta_drift: rows of betas written so far
    args,                    \* arguments of a call that has no loop state
    result                   \* its exception or returned value

lawVars == <<beta, p_utils, p_simulation>>
estVars == <<observations, alpha, process_var, observation_var, t,
             probabilities, state, covariance, beta_history, initial>>
rollVars == <<draws, baseline_probabilities, window_size, end, records>>
objVars == <<estimator, outcome, offered>>
driftVars == <<config, rng, streams, phase, current, unclipped, betas>>
simVars == <<driftVars, args, result>>
vars == <<fn, pc, n_outcomes, lawVars, estVars, calls, rollVars, objVars,
          simVars>>

----------------------------------------------------------------------------
(* Bounds of the model. *)

\* largest n_outcomes passed to any call
MaxN == 3
\* largest number of observations / draws passed to any call
MaxLen == 3
\* largest number of observations offered to one AdaptiveBetaEstimator, a
\* call of batch_update without observations counting as one
MaxOffered == 2
\* largest n_steps of a BetaDriftConfig and longest beta_series tried
MaxSteps == 2
\* largest seed passed to default_rng
MaxSeed == 1
\* largest number of draws passed to rolling_anomaly_scores
MaxDraws == 4
\* largest window_size passed to rolling_anomaly_scores
MaxWindow == 3

----------------------------------------------------------------------------
(* Exact rational arithmetic standing for the float arithmetic of numpy.   *)

Abs(x) == IF x < 0 THEN -x ELSE x

RECURSIVE Gcd(_, _)
Gcd(a, b) == IF b = 0 THEN a ELSE Gcd(b, a % b)

\* the rational n/d in lowest terms with a positive denominator (d # 0)
Rat(n, d) ==
    LET g == Gcd(Abs(n), Abs(d))
        s == IF d < 0 THEN -1 ELSE 1
    IN  <<s * (n \div g), s * (d \div g)>>

Zero == <<0, 1>>
One == <<1, 1>>

\* Polynomials in eps = 1e-12 with integer coefficients, the coefficient of
\* the lowest power first and no zero at the end (<<>> is 0).  A number
\* <<p0, .., pk, q0, .., qk>> is (p0 + .. + pk eps^k) / (q0 + .. + qk eps^k);
\* k = 0 gives the rationals <<num, den>>.
PCoef(a, i) == IF 1 <= i /\ i <= Len(a) THEN a[i] ELSE 0

RECURSIVE PTrim(_)
PTrim(a) ==
    IF a = <<>> THEN <<>>
    ELSE IF a[Len(a)] = 0 THEN PTrim(SubSeq(a, 1, Len(a) - 1))
    ELSE a

PScale(c, a) == PTrim([i \in 1..Len(a) |-> c * a[i]])

PAdd(a, b) ==
    PTrim([i \in 1..(IF Len(a) > Len(b) THEN Len(a) ELSE Len(b)) |->
              PCoef(a, i) + PCoef(b, i)])

\* a * eps^m
PShift(a, m) == [i \in 1..(Len(a) + m) |-> IF i <= m THEN 0 ELSE a[i - m]]

RECURSIVE PConv(_, _, _, _)
PConv(a, b, k, i) ==
    IF i > k THEN 0
    ELSE PCoef(a, i) * PCoef(b, k + 1 - i) + PConv(a, b, k, i + 1)

PMul(a, b) ==
    IF a = <<>> \/ b = <<>> THEN <<>>
    ELSE PTrim([k \in 1..(Len(a) + Len(b) - 1) |-> PConv(a, b, k, 1)])

\* the coefficient of the lowest power present (0 for the polynomial 0).
\* Coefficients are below 2^31 < 1e12 - 1 in absolute value, so the terms
\* of higher order sum to less than the lowest one: the value of the
\* polynomial at eps = 1e-12 has the sign of this coefficient, and is 0
\* only for the polynomial 0.
RECURSIVE PLow(_)
PLow(a) ==
    IF a = <<>> THEN 0
    ELSE IF Head(a) # 0 THEN Head(a)
    ELSE PLow(Tail(a))

\* the gcd of the coefficients
RECURSIVE PContent(_)
PContent(a) ==
    IF a = <<>> THEN 0 ELSE Gcd(Abs(Head(a)), PContent(Tail(a)))

PPrimitive(a) ==
    IF a = <<>> THEN <<>>
    ELSE LET c == PContent(a) IN [i \in 1..Len(a) |-> a[i] \div c]

\* a remainder of a by b # 0, up to a rational factor
RECURSIVE PRem(_, _)
PRem(a, b) ==
    IF Len(a) < Len(b) THEN a
    ELSE LET g == Gcd(Abs(a[Len(a)]), Abs(b[Len(b)]))
         IN  PRem(PPrimitive(PAdd(PScale(b[Len(b)] \div g, a),
                                  PScale(-(a[Len(a)] \div g),
                                         PShift(b, Len(a) - Len(b))))), b)

\* the primitive greatest common divisor of two polynomials, not both 0
RECURSIVE PGcd(_, _)
PGcd(a, b) ==
    IF b = <<>> THEN PPrimitive(a)
    ELSE IF Len(a) < Len(b) THEN PGcd(b, a)
    ELSE IF Len(b) = 1 THEN <<1>>
    ELSE PGcd(b, PRem(a, b))

\* a / b for a primitive divisor b of a
RECURSIVE PQuot(_, _)
PQuot(a, b) ==
    IF Len(a) < Len(b) THEN <<>>
    ELSE LET c == a[Len(a)] \div b[Len(b)]
             m == Len(a) - Len(b)
         IN  PAdd(PShift(<<c>>, m),
                  PQuot(PAdd(a, PScale(-c, PShift(b, m))), b))

Num(x) == PTrim(SubSeq(x, 1, Len(x) \div 2))
Den(x) == PTrim(SubSeq(x, Len(x) \div 2 + 1, Len(x)))

\* the number p / q (q # 0) for p and q without a common factor, in its
\* normal form: no common divisor of the coefficients, a positive denominator
FracNormal(p, q) ==
    LET c == Gcd(PContent(p), PContent(q))
        s == IF PLow(q) < 0 THEN -1 ELSE 1
        h == IF Len(p) > Len(q) THEN Len(p) ELSE Len(q)
    IN  [i \in 1..(2 * h) |->
            IF i <= h THEN (s * PCoef(p, i)) \div c
            ELSE (s * PCoef(q, i - h)) \div c]

\* the number p / q (q # 0) in its normal form
Frac(p, q) ==
    LET g == PGcd(p, q)
    IN  IF Len(g) = 1 THEN FracNormal(p, q)
        ELSE FracNormal(PQuot(p, g), PQuot(q, g))

IsRational(x) == Len(x) = 2

RNeg(x) == [i \in 1..Len(x) |-> IF i <= Len(x) \div 2 THEN -x[i] ELSE x[i]]

\* x + y; a rational added to a number in normal form needs no cancelling
RAdd(x, y) ==
    IF IsRational(x) /\ IsRational(y)
    THEN LET g == Gcd(x[2], y[2])
         IN  Rat(x[1] * (y[2] \div g) + y[1] * (x[2] \div g),
                 (x[2] \div g) * y[2])
    ELSE IF y = Zero THEN x
    ELSE IF x = Zero THEN y
    ELSE IF IsRational(y)
    THEN FracNormal(PAdd(PScale(y[2], Num(x)), PScale(y[1], Den(x))),
                    PScale(y[2], Den(x)))
    ELSE IF IsRational(x)
    THEN FracNormal(PAdd(PScale(x[2], Num(y)), PScale(x[1], Den(y))),
                    PScale(x[2], Den(y)))
    ELSE IF Den(x) = Den(y) THEN Frac(PAdd(Num(x), Num(y)), Den(x))
    ELSE Frac(PAdd(PMul(Num(x), Den(y)), PMul(Num(y), Den(x))),
              PMul(Den(x), Den(y)))

RSub(x, y) == RAdd(x, RNeg(y))

\* x * y; a rational factor adds no common factor
RMul(x, y) ==
    IF IsRational(x) /\ IsRational(y)
    THEN LET g1 == Gcd(Abs(x[1]), y[2])
             g2 == Gcd(Abs(y[1]), x[2])
         IN  Rat((x[1] \div g1) * (y[1] \div g2),
                 (x[2] \div g2) * (y[2] \div g1))
    ELSE IF x = Zero \/ y = Zero THEN Zero
    ELSE IF y = One THEN x
    ELSE IF x = One THEN y
    ELSE IF IsRational(y)
    THEN FracNormal(PScale(y[1], Num(x)), PScale(y[2], Den(x)))
    ELSE IF IsRational(x)
    THEN FracNormal(PScale(x[1], Num(y)), PScale(x[2], Den(y)))
    ELSE Frac(PMul(Num(x), Num(y)), PMul(Den(x), Den(y)))

\* x / y for y # 0 (no reachable call of the model divides by zero)
RDiv(x, y) ==
    IF IsRational(y)
    THEN RMul(x, IF y[1] > 0 THEN <<y[2], y[1]>> ELSE <<-y[2], -y[1]>>)
    ELSE IF ~IsRational(x) /\ Den(x) = Den(y) THEN Frac(Num(x), Num(y))
    ELSE RMul(x, FracNormal(Den(y), Num(y)))

\* a / b < c / d for a, c >= 0 and b, d > 0, by comparing the integer parts
\* and then the reciprocals of the fractional parts (no product is formed,
\* so the comparison stays within 32 bits)
RECURSIVE LtPos(_, _, _, _)
LtPos(a, b, c, d) ==
    IF a \div b # c \div d THEN a \div b < c \div d
    ELSE IF c % d = 0 THEN FALSE
    ELSE IF a % b = 0 THEN TRUE
    ELSE LtPos(d, c % d, b, a % b)

\* the coefficient of eps^(k-1) in Num(x) Den(y) - Num(y) Den(x), summed
\* from the j-th term on
RECURSIVE CrossCoef(_, _, _, _)
CrossCoef(x, y, k, j) ==
    IF j > k THEN 0
    ELSE LET hx == Len(x) \div 2
             hy == Len(y) \div 2
             i == k + 1 - j
         IN  (IF j <= hx /\ i <= hy THEN x[j] * y[hy + i] ELSE 0)
             - (IF j <= hy /\ i <= hx THEN y[j] * x[hx + i] ELSE 0)
             + CrossCoef(x, y, k, j + 1)

\* the lowest non-zero coefficient of Num(x) Den(y) - Num(y) Den(x), which
\* has the sign of x - y (both denominators are positive)
RECURSIVE CrossLow(_, _, _)
CrossLow(x, y, k) ==
    IF k >= (Len(x) + Len(y)) \div 2 THEN 0
    ELSE LET c == CrossCoef(x, y, k, 1)
         IN  IF c # 0 THEN c ELSE CrossLow(x, y, k + 1)

RLt(x, y) ==
    IF IsRational(x) /\ IsRational(y)
    THEN IF x[1] < 0 /\ y[1] >= 0 THEN TRUE
         ELSE IF x[1] >= 0 /\ y[1] < 0 THEN FALSE
         ELSE IF x[1] >= 0 THEN LtPos(x[1], x[2], y[1], y[2])
         ELSE LtPos(-y[1], y[2], -x[1], x[2])
    ELSE CrossLow(x, y, 1) < 0
RLe(x, y) == ~RLt(y, x)

RMax(x, y) == IF RLt(x, y) THEN y ELSE x
RMin(x, y) == IF RLt(y, x) THEN y ELSE x

RECURSIVE VSum(_)
VSum(v) == IF v = <<>> THEN Zero ELSE RAdd(Head(v), VSum(Tail(v)))

\* numpy's v.mean()
VMean(v) == RDiv(VSum(v), <<Len(v), 1>>)

\* np.clip(v, lo, hi), componentwise
VClip(v, lo, hi) == [i \in 1..Len(v) |-> RMin(RMax(v[i], lo), hi)]

\* np.full(n, x)
VFull(n, x) == [i \in 1..n |-> x]

\* math.isclose(x, 1.0): |x - 1| <= 1e-9 * max(|x|, 1), without products
\* that leave 32 bits
MathIsCloseToOne(x) ==
    LET k == Abs(x[1] - x[2])
        m == IF Abs(x[1]) > x[2] THEN Abs(x[1]) ELSE x[2]
    IN  k = 0 \/ (m \div k) >= 1000000000

\* np.isclose(x, 1.0): |x - 1| <= 1e-8 + 1e-5 * |1.0| = 1001 / 10^8
NpIsCloseToOne(x) ==
    LET d == RSub(x, One)
    IN  RLe(RMax(d, RNeg(d)), <<1001, 100000000>>)

\* the outcome of a call: an exception, or a returned value
Raised == [raised |-> TRUE, value |-> <<>>]
Returned(v) == [raised |-> FALSE, value |-> v]

----------------------------------------------------------------------------
(* The bias-probability law (utils.py, simulation.py).                     *)

\* adjusted = base * (1 + beta_array), base = 1 / n_outcomes
Adjusted(n, b) == [i \in 1..n |-> RMul(Rat(1, n), RAdd(One, b[i]))]

\* a variant that clamps negative mass to zero instead of raising
UtilsClamping(n, b) ==
    IF Len(b) # n THEN Raised
    ELSE IF n = 0 THEN Raised
    ELSE LET adjusted == VClip(Adjusted(n, b), Zero, <<1000, 1>>)
             total == VSum(adjusted)
         IN  IF RLe(total, Zero) THEN Raised
             ELSE Returned([i \in 1..n |-> RDiv(adjusted[i], total)])

\* a variant that forgets to renormalise
UtilsUnnormalised(n, b) ==
    IF Len(b) # n THEN Raised
    ELSE IF n = 0 THEN Raised
    ELSE LET adjusted == Adjusted(n, b)
             total == VSum(adjusted)
         IN  IF \E i \in 1..n : RLt(adjusted[i], Zero) THEN Raised
             ELSE IF RLe(total, Zero) THEN Raised
             ELSE Returned(adjusted)

\* utils.wamecu_probabilities.  With n_outcomes = 0 and an empty beta the
\* size check passes and 1.0 / n_outcomes raises ZeroDivisionError.
UtilsWamecuProbabilities(n, b) ==
    IF Len(b) # n THEN Raised
    ELSE IF n = 0 THEN Raised
    ELSE LET adjusted == Adjusted(n, b)
             total == VSum(adjusted)
         IN  IF \E i \in 1..n : RLt(adjusted[i], Zero) THEN Raised
             ELSE IF RLe(total, Zero) THEN Raised
             ELSE Returned([i \in 1..n |-> RDiv(adjusted[i], total)])

\* simulation.wamecu_probabilities: the same checks; renormalises only
\* when the total is not math.isclose to 1
SimulationWamecuProbabilities(n, b) ==
    IF Len(b) # n THEN Raised
    ELSE IF n = 0 THEN Raised
    ELSE LET adjusted == Adjusted(n, b)
             total == VSum(adjusted)
         IN  IF \E i \in 1..n : RLt(adjusted[i], Zero) THEN Raised
             ELSE IF RLe(total, Zero) THEN Raised
             ELSE IF ~MathIsCloseToOne(total)
                  THEN Returned([i \in 1..n |-> RDiv(adjusted[i], total)])
                  ELSE Returned(adjusted)

\* bias coefficients tried: below -1, exactly -1, and valid ones
BetaValues == {<<-2, 1>>, <<-1, 1>>, <<-1, 2>>, Zero, <<1, 2>>, <<1, 1>>}

\* all sequences over S of length at most n
SeqUpTo(S, n) == UNION {[1..k -> S] : k \in 0..n}

NoCall == [raised |-> FALSE, value |-> <<>>]

----------------------------------------------------------------------------
(* The streaming estimators (estimation.py).                               *)

\* an optional argument: None, or a given vector
None == [given |-> FALSE, value |-> <<>>]
Given(v) == [given |-> TRUE, value |-> v]

\* np.clip(..., -0.99, 0.99)
ClipBound == <<99, 100>>

\* The floor 1e-12 of np.maximum(probabilities, 1e-12): the number eps / 1
Floor == <<0, 1, 1, 0>>

\* one_hot = zeros(n); one_hot[obs] = 1.0
OneHot(n, obs) == [i \in 1..n |-> IF i = obs + 1 THEN One ELSE Zero]

\* probabilities / probabilities.sum()
Normalise(p) == LET total == VSum(p) IN [i \in 1..Len(p) |-> RDiv(p[i], total)]

\* a loop body that peeks at the next observation when there is one
EwmaLookAhead(p, obs_array, tt, n, a) ==
    LET obs == IF tt + 2 <= Len(obs_array) /\ obs_array[tt + 2] \in 0..(n - 1)
               THEN obs_array[tt + 2] ELSE obs_array[tt + 1]
        one_hot == OneHot(n, obs)
        mixed == [i \in 1..n |->
                    RAdd(RMul(RSub(One, a), p[i]), RMul(a, one_hot[i]))]
        floored == [i \in 1..n |-> RMax(mixed[i], Floor)]
    IN  Normalise(floored)

\* a loop body that mixes in the complement of the one-hot vector
EwmaWrongDirection(p, obs_array, tt, n, a) ==
    LET obs == obs_array[tt + 1]
        one_hot == OneHot(n, obs)
        mixed == [i \in 1..n |->
                    RAdd(RMul(RSub(One, a), p[i]),
                         RMul(a, RDiv(RSub(One, one_hot[i]), <<n - 1, 1>>)))]
        floored == [i \in 1..n |-> RMax(mixed[i], Floor)]
    IN  Normalise(floored)

\* ewma_estimator, loop body, the update of probabilities for step tt
\* (0-based) of obs_array: mix in the one-hot vector, floor, renormalise
EwmaLoopBody(p, obs_array, tt, n, a) ==
    LET obs == obs_array[tt + 1]
        one_hot == OneHot(n, obs)
        mixed == [i \in 1..n |->
                    RAdd(RMul(RSub(One, a), p[i]), RMul(a, one_hot[i]))]
        floored == [i \in 1..n |-> RMax(mixed[i], Floor)]
    IN  Normalise(floored)

\* a variant that clips at +-1 instead of +-0.99
EwmaBetaWideClip(p, n) ==
    LET raw == [i \in 1..n |-> RSub(RMul(p[i], <<n, 1>>), One)]
        mean == VMean(raw)
    IN  VClip([i \in 1..n |-> RSub(raw[i], mean)], RNeg(One), One)

\* ewma_estimator, loop body, the beta emitted for the updated
\* probabilities: p / baseline - 1, recentred, clipped
EwmaBeta(p, n) ==
    LET raw == [i \in 1..n |-> RSub(RMul(p[i], <<n, 1>>), One)]
        mean == VMean(raw)
    IN  VClip([i \in 1..n |-> RSub(raw[i], mean)], RNeg(ClipBound), ClipBound)

\* 0 <= obs < n_outcomes
InRange(obs, n) == 0 <= obs /\ obs < n

\* a validation that forgets the check of alpha
EwmaRejectsAlphaUnchecked(n, a, init) ==
    \/ n < 2
    \/ init.given /\ Len(init.value) # n

\* ewma_estimator: the checks before the loop
EwmaRejects(n, a, init) ==
    \/ n < 2
    \/ ~(RLt(Zero, a) /\ RLe(a, One))
    \/ init.given /\ Len(init.value) # n

\* ewma_estimator: the probabilities the loop starts from
EwmaStart(n, init) ==
    IF init.given THEN Normalise(init.value) ELSE VFull(n, Rat(1, n))

\* kalman_tracker: the initial per-outcome variance
InitialVariance == <<1, 4>>

\* measurement = full(n, -baseline); measurement[obs] = 1 - baseline
Measurement(n, obs) ==
    [i \in 1..n |-> IF i = obs + 1 THEN RSub(One, Rat(1, n))
                    ELSE RNeg(Rat(1, n))]

\* predict: covariance + process_var
KalmanPredict(cov, q) == [i \in 1..Len(cov) |-> RAdd(cov[i], q)]

\* kalman_gain = covariance / (covariance + observation_var)
KalmanGain(predicted, r) ==
    [i \in 1..Len(predicted) |-> RDiv(predicted[i], RAdd(predicted[i], r))]

\* an update that forgets the factor (1 - kalman_gain)
KalmanCovarianceNoUpdate(cov, q, r) == KalmanPredict(cov, q)

\* kalman_tracker, loop body, the covariance after predict and update:
\* (1 - kalman_gain) * (covariance + process_var)
KalmanCovariance(cov, q, r) ==
    LET predicted == KalmanPredict(cov, q)
        gain == KalmanGain(predicted, r)
    IN  [i \in 1..Len(cov) |-> RMul(RSub(One, gain[i]), predicted[i])]

\* a loop body that peeks at the next observation when there is one
KalmanLookAhead(st, cov, obs_array, tt, n, q, r) ==
    LET obs == IF tt + 2 <= Len(obs_array) /\ obs_array[tt + 2] \in 0..(n - 1)
               THEN obs_array[tt + 2] ELSE obs_array[tt + 1]
        measurement == Measurement(n, obs)
        gain == KalmanGain(KalmanPredict(cov, q), r)
        updated == [i \in 1..n |->
                      RAdd(st[i], RMul(gain[i], RSub(measurement[i], st[i])))]
        mean == VMean(updated)
    IN  VClip([i \in 1..n |-> RSub(updated[i], mean)],
              RNeg(ClipBound), ClipBound)

\* kalman_tracker, loop body, the state after step tt (0-based) of
\* obs_array: gain-weighted move towards the measurement, recentred, clipped
KalmanState(st, cov, obs_array, tt, n, q, r) ==
    LET obs == obs_array[tt + 1]
        measurement == Measurement(n, obs)
        gain == KalmanGain(KalmanPredict(cov, q), r)
        updated == [i \in 1..n |->
                      RAdd(st[i], RMul(gain[i], RSub(measurement[i], st[i])))]
        mean == VMean(updated)
    IN  VClip([i \in 1..n |-> RSub(updated[i], mean)],
              RNeg(ClipBound), ClipBound)

\* kalman_tracker: the checks before the loop
KalmanRejects(n, q, r, init) ==
    \/ n < 2
    \/ RLe(q, Zero) \/ RLe(r, Zero)
    \/ init.given /\ Len(init.value) # n

\* kalman_tracker: the state the loop starts from
KalmanStart(n, init) ==
    IF init.given THEN VClip(init.value, RNeg(ClipBound), ClipBound)
    ELSE VFull(n, Zero)

\* ewma_estimator: the loop from step tt on, given the locals at that
\* point.  (The locals of the next iteration are bound as elements of
\* singleton sets so that TLC computes each of them once.)
RECURSIVE EwmaRun(_, _, _, _, _, _)
EwmaRun(p, hist, obs_array, tt, n, a) ==
    IF tt = Len(obs_array) THEN Returned(hist)
    ELSE IF ~InRange(obs_array[tt + 1], n) THEN Raised
    ELSE CHOOSE res \in
            UNION {{EwmaRun(p2, h2, obs_array, tt + 1, n, a) :
                      h2 \in {Append(hist, EwmaBeta(p2, n))}} :
                   p2 \in {EwmaLoopBody(p, obs_array, tt, n, a)}} : TRUE

\* ewma_estimator(obs, n, alpha = a, initial_probabilities = init) as one
\* call: the exception, or the returned beta_history
EwmaEstimator(obs, n, a, init) ==
    IF EwmaRejects(n, a, init) THEN Raised
    ELSE EwmaRun(EwmaStart(n, init), <<>>, obs, 0, n, a)

\* ewma_estimator: the probabilities its loop holds once the in-range
\* observations obs_array[tt + 1 ..] are consumed, starting from p
RECURSIVE EwmaTracked(_, _, _, _, _)
EwmaTracked(p, obs_array, tt, n, a) ==
    IF tt = Len(obs_array) THEN p
    ELSE CHOOSE res \in
            {EwmaTracked(p2, obs_array, tt + 1, n, a) :
                p2 \in {EwmaLoopBody(p, obs_array, tt, n, a)}} : TRUE

----------------------------------------------------------------------------
(* The rolling anomaly diagnostics (anomaly.py).                           *)

\* the largest element of a non-empty set of integers
SetMax(S) == CHOOSE x \in S : \A y \in S : y <= x

\* the number of positions of window holding the value v
CountOf(window, v) == Cardinality({i \in 1..Len(window) : window[i] = v})

\* np.bincount(window, minlength = n): raises on a negative element; an
\* element >= n makes the result longer than n
Bincount(window, n) ==
    IF \E i \in 1..Len(window) : window[i] < 0 THEN Raised
    ELSE LET top == SetMax({n - 1} \cup {window[i] : i \in 1..Len(window)})
         IN  Returned([i \in 1..(top + 1) |-> <<CountOf(window, i - 1), 1>>])

\* a chi-square check that rejects an expected count of 0 only
ChiSquareAcceptsNegative(observed, expected) ==
    IF Len(observed) # Len(expected) THEN Raised
    ELSE IF \E i \in 1..Len(expected) : expected[i] = Zero THEN Raised
    ELSE Returned(VSum([i \in 1..Len(observed) |->
            LET d == RSub(observed[i], expected[i])
            IN  RMul(d, RDiv(d, expected[i]))]))

\* chi_square_statistic(observed, expected): the statistic
\* sum((observed - expected) ** 2 / expected).  (The p-value needs the
\* chi-square distribution function and is not modelled.  Each term is
\* computed as d * (d / e), the same number as d ** 2 / e, to keep the
\* intermediate values within 32 bits.)
ChiSquareStatistic(observed, expected) ==
    IF Len(observed) # Len(expected) THEN Raised
    ELSE IF \E i \in 1..Len(expected) : RLe(expected[i], Zero) THEN Raised
    ELSE Returned(VSum([i \in 1..Len(observed) |->
            LET d == RSub(observed[i], expected[i])
            IN  RMul(d, RDiv(d, expected[i]))]))

\* an entropy_gap that does not check the sum of empirical_prob
EntropyGapChecksBaselineOnly(empirical_prob, baseline_prob) ==
    \/ Len(empirical_prob) # Len(baseline_prob)
    \/ ~NpIsCloseToOne(VSum(baseline_prob))

\* entropy_gap(empirical_prob, baseline_prob): whether it raises.  (The
\* value needs log2 and is not modelled.)
EntropyGapRejects(empirical_prob, baseline_prob) ==
    \/ Len(empirical_prob) # Len(baseline_prob)
    \/ ~NpIsCloseToOne(VSum(empirical_prob))
    \/ ~NpIsCloseToOne(VSum(baseline_prob))

\* a validation that forgets the check of window_size
RollingRejectsAnyWindow(d, baseline, w) ==
    \/ \E i \in 1..Len(baseline) : RLt(baseline[i], Zero)
    \/ ~NpIsCloseToOne(VSum(baseline))
    \/ Len(d) < w

\* rolling_anomaly_scores: the checks before the loop
RollingRejects(d, baseline, w) ==
    \/ \E i \in 1..Len(baseline) : RLt(baseline[i], Zero)
    \/ ~NpIsCloseToOne(VSum(baseline))
    \/ w <= 1
    \/ Len(d) < w

\* rolling_anomaly_scores: window = draws[end - window_size : end]
RollingWindow(d, w, e) == SubSeq(d, e - w + 1, e)

\* rolling_anomaly_scores, loop body for one value of end: the record
\* appended, or the exception of bincount, chi_square_statistic or
\* entropy_gap
RollingRecord(d, baseline, w, e) ==
    LET n == Len(baseline)
        counts == Bincount(RollingWindow(d, w, e), n)
        expected_counts == [i \in 1..n |-> RMul(baseline[i], <<w, 1>>)]
    IN  IF counts.raised THEN Raised
        ELSE LET chi == ChiSquareStatistic(counts.value, expected_counts)
                 empirical == [i \in 1..Len(counts.value) |->
                                 RDiv(counts.value[i], <<w, 1>>)]
             IN  IF chi.raised THEN Raised
                 ELSE IF EntropyGapRejects(empirical, baseline) THEN Raised
                 ELSE Returned([step |-> e - 1, chi2_stat |-> chi.value])

\* a baseline whose sum 1.00001 differs from 1 but is np.isclose to it
NearOneBaseline == <<One, (<<1, 100000>>)>>

\* baselines tried: uniform and skewed distributions, one with a zero
\* entry, one with a negative entry, one that sums to 3/4, NearOneBaseline
Baselines ==
    {<<(<<1, 2>>), (<<1, 2>>)>>, <<(<<1, 4>>), (<<3, 4>>)>>,
     <<One, Zero>>, <<(<<3, 2>>), (<<-1, 2>>)>>, <<(<<1, 2>>), (<<1, 4>>)>>,
     <<(<<1, 3>>), (<<1, 3>>), (<<1, 3>>)>>, NearOneBaseline}

\* draw sequences tried with a baseline: -1 and len(baseline) are out of
\* range.  With NearOneBaseline only outcome 0 is drawn: any other draw
\* makes (observed - expected) ** 2 leave 32 bits.
DrawSeqs(baseline) ==
    IF baseline = NearOneBaseline THEN SeqUpTo({0}, MaxDraws)
    ELSE SeqUpTo(-1..Len(baseline), MaxDraws)

----------------------------------------------------------------------------
(* outcome_correlation_matrix (anomaly.py).  A correlation coefficient is  *)
(* kept exactly as the pair of its sign and its square.                    *)

\* np.eye(n)[d] fails for an index outside [-n, n)
EyeRejects(d, n) == \E i \in 1..Len(d) : d[i] < -n \/ d[i] >= n

\* the row of np.eye(n) an index selects: a negative index counts from the end
EyeRow(x, n) == IF x < 0 THEN n + x ELSE x

\* one_hot = np.eye(n)[d]: row i has a one in column EyeRow(d[i], n)
EyeRows(d, n) ==
    [i \in 1..Len(d) |-> [j \in 1..n |-> IF EyeRow(d[i], n) = j - 1 THEN 1 ELSE 0]]

\* the sum of column j, and of the products of columns i and j
ColumnSum(one_hot, j) == CountOf([k \in 1..Len(one_hot) |-> one_hot[k][j]], 1)
ProductSum(one_hot, i, j) ==
    CountOf([k \in 1..Len(one_hot) |-> one_hot[k][i] * one_hot[k][j]], 1)

\* m * m times the covariance of columns i and j of m rows
ScaledCov(one_hot, i, j) ==
    Len(one_hot) * ProductSum(one_hot, i, j)
        - ColumnSum(one_hot, i) * ColumnSum(one_hot, j)

Sign(x) == IF x > 0 THEN 1 ELSE IF x < 0 THEN -1 ELSE 0

\* np.nan_to_num(np.corrcoef(one_hot, rowvar=False)): the entry of a column
\* of zero variance is nan and becomes 0
Corrcoef(one_hot, n) ==
    [i \in 1..n |-> [j \in 1..n |->
        IF ScaledCov(one_hot, i, i) = 0 \/ ScaledCov(one_hot, j, j) = 0
        THEN [sign |-> 0, square |-> Zero]
        ELSE [sign |-> Sign(ScaledCov(one_hot, i, j)),
              square |-> Rat(ScaledCov(one_hot, i, j) * ScaledCov(one_hot, i, j),
                            ScaledCov(one_hot, i, i) * ScaledCov(one_hot, j, j))]]]

\* outcome_correlation_matrix(d, n); one_hot is kept beside the result
OutcomeCorrelationMatrix(d, n) ==
    IF n <= 1 THEN Raised
    ELSE IF Len(d) = 0 THEN Raised
    ELSE IF EyeRejects(d, n) THEN Raised
    ELSE Returned([one_hot |-> EyeRows(d, n),
                   correlation |-> Corrcoef(EyeRows(d, n), n)])

\* draws tried with n outcomes: -n - 1 and n fail as indices, -1 does not
CorrelationDraws(n) == SeqUpTo({-n - 1, -1} \cup 0..n, MaxDraws)

----------------------------------------------------------------------------
(* AdaptiveBetaEstimator (estimation.py).  An object is the record of its  *)
(* fields n_outcomes, smoothing, _probabilities and beta_.                 *)

\* AdaptiveBetaEstimator.__init__(n, s): nothing is validated; 1.0 / 0
\* raises for n = 0
AdaptiveInit(n, s) ==
    IF n = 0 THEN Raised
    ELSE Returned([n_outcomes |-> n, smoothing |-> s,
                   probabilities |-> VFull(n, Rat(1, n)),
                   beta |-> VFull(n, Zero)])

\* update's own blend: (1 - smoothing) * p, p[observation] += smoothing,
\* p / p.sum() (no floor here)
AdaptiveBlend(est, observation) ==
    LET scaled == [i \in 1..est.n_outcomes |->
                     RMul(RSub(One, est.smoothing), est.probabilities[i])]
        bumped == [i \in 1..est.n_outcomes |->
                     IF i = observation + 1
                     THEN RAdd(scaled[i], est.smoothing) ELSE scaled[i]]
    IN  Normalise(bumped)

\* an update that rescales _probabilities before it validates its input
AdaptiveUpdateScalesFirst(est, observation) ==
    LET scaled == [i \in 1..est.n_outcomes |->
                     RMul(RSub(One, est.smoothing), est.probabilities[i])]
        history == EwmaEstimator(<<observation>>, est.n_outcomes,
                                 est.smoothing, Given(est.probabilities))
    IN  IF history.raised
        THEN [raised |-> TRUE,
              estimator |-> [est EXCEPT !.probabilities = scaled]]
        ELSE [raised |-> FALSE,
              estimator |-> [est EXCEPT
                               !.probabilities = AdaptiveBlend(est, observation),
                               !.beta = history.value[1]]]

\* AdaptiveBetaEstimator.update(observation): the exception or the new
\* fields.  ewma_estimator runs before any assignment to self.
AdaptiveUpdate(est, observation) ==
    LET history == EwmaEstimator(<<observation>>, est.n_outcomes,
                                 est.smoothing, Given(est.probabilities))
    IN  IF history.raised THEN [raised |-> TRUE, estimator |-> est]
        ELSE [raised |-> FALSE,
              estimator |-> [est EXCEPT
                               !.probabilities = AdaptiveBlend(est, observation),
                               !.beta = history.value[1]]]

\* a batch_update that leaves _probabilities as they were
AdaptiveBatchKeepsProbabilities(est, obs) ==
    LET history == EwmaEstimator(obs, est.n_outcomes, est.smoothing,
                                 Given(est.probabilities))
    IN  IF history.raised THEN [raised |-> TRUE, estimator |-> est]
        ELSE IF Len(history.value) = 0 THEN [raised |-> TRUE, estimator |-> est]
        ELSE [raised |-> FALSE,
              estimator |-> [est EXCEPT !.beta = history.value[Len(history.value)]]]

\* AdaptiveBetaEstimator.batch_update(obs): history[-1] raises IndexError on
\* an empty history; beta_ is assigned before wamecu_probabilities is called
AdaptiveBatchUpdate(est, obs) ==
    LET history == EwmaEstimator(obs, est.n_outcomes, est.smoothing,
                                 Given(est.probabilities))
    IN  IF history.raised THEN [raised |-> TRUE, estimator |-> est]
        ELSE IF Len(history.value) = 0 THEN [raised |-> TRUE, estimator |-> est]
        ELSE LET last == history.value[Len(history.value)]
                 law == UtilsWamecuProbabilities(est.n_outcomes, last)
             IN  IF law.raised
                 THEN [raised |-> TRUE, estimator |-> [est EXCEPT !.beta = last]]
                 ELSE [raised |-> FALSE,
                       estimator |-> [est EXCEPT !.beta = last,
                                                 !.probabilities = law.value]]

----------------------------------------------------------------------------
(* Linear forms.  A value of beta_drift is a real number that depends on   *)
(* what the generator yields.  It is kept as the linear form               *)
(*     c + k1 y1 + .. + km ym,       [c |-> c, s |-> {<<y1, k1>>, ..}],    *)
(* with rational c and non-zero rational k1 .. km, over the symbols        *)
(*   <<"normal", seed, at, i>>  the i-th standard normal deviate of the    *)
(*                              request at position at of the seed,        *)
(*   <<"sin", turn, ph>>        sin(2 pi turn + ph), ph the symbol         *)
(*                              <<"uniform", seed, at>> of the angle drawn *)
(*                              in [0, 2 pi), which lies in [-1, 1],       *)
(*   <<"clip", f, c>>           np.clip(f, -c, c) for a form f that may    *)
(*                              leave [-c, c], which lies in [-c, c].      *)
(* The value the code holds is the value of the form at the numbers its    *)
(* generator yields; two equal forms are equal numbers in every run.       *)

\* the number x
FConst(x) == [c |-> x, s |-> {}]

\* the symbol y
FSym(y) == [c |-> Zero, s |-> {<<y, One>>}]

\* the coefficient of the symbol y in f
Coef(f, y) ==
    IF \E p \in f.s : p[1] = y THEN (CHOOSE p \in f.s : p[1] = y)[2] ELSE Zero

\* float + on two values
FAdd(f, h) ==
    [c |-> RAdd(f.c, h.c),
     s |-> {p \in {<<y, RAdd(Coef(f, y), Coef(h, y))>> :
                     y \in {q[1] : q \in f.s \cup h.s}} : p[2] # Zero}]

\* float * of the number k and a value
FScale(k, f) ==
    IF k = Zero THEN FConst(Zero)
    ELSE [c |-> RMul(k, f.c), s |-> {<<p[1], RMul(k, p[2])>> : p \in f.s}]

\* numpy's v.sum()
RECURSIVE FSum(_)
FSum(v) == IF v = <<>> THEN FConst(Zero) ELSE FAdd(Head(v), FSum(Tail(v)))

\* the largest distance from its constant that the terms D of a form over
\* sines and clipped values can reach: the sum of |k| times the bound of
\* the symbol
RECURSIVE FRadius(_)
FRadius(D) ==
    IF D = {} THEN Zero
    ELSE LET p == CHOOSE p \in D : TRUE
         IN  RAdd(RMul(RMax(p[2], RNeg(p[2])),
                       IF p[1][1] = "clip" THEN p[1][3] ELSE One),
                  FRadius(D \ {p}))

\* the signs (-1, 0, 1) the value f can have as far as the bounds of its
\* symbols tell; a normal deviate has no bound
FSigns(f) ==
    IF \E p \in f.s : p[1][1] = "normal" THEN {-1, 0, 1}
    ELSE LET lo == RSub(f.c, FRadius(f.s))
             hi == RAdd(f.c, FRadius(f.s))
         IN  {sg \in {-1, 0, 1} : \/ sg = -1 /\ RLt(lo, Zero)
                                  \/ sg = 0 /\ RLe(lo, Zero) /\ RLe(Zero, hi)
                                  \/ sg = 1 /\ RLt(Zero, hi)}

\* np.clip(f, -c, c) for 0 <= c: the bound that f is sure to pass, f
\* itself when it is sure to lie within the bounds, the clipped value as a
\* symbol otherwise
FClip(f, c) ==
    IF FSigns(FAdd(f, FConst(RNeg(c)))) \subseteq {0, 1} THEN FConst(c)
    ELSE IF FSigns(FAdd(f, FConst(c))) \subseteq {-1, 0} THEN FConst(RNeg(c))
    ELSE IF /\ FSigns(FAdd(f, FConst(RNeg(c)))) \subseteq {-1, 0}
            /\ FSigns(FAdd(f, FConst(c))) \subseteq {0, 1}
    THEN f
    ELSE FSym(<<"clip", f, c>>)

\* utils.wamecu_probabilities(n, b) for a vector b of values, n > 0:
\* whether it raises (a length other than n, some adjusted mass < 0, or
\* their sum <= 0), as far as the bounds of the symbols tell
UtilsRaisesOn(n, b) ==
    IF Len(b) # n THEN {TRUE} ELSE
    LET adjusted == [i \in 1..n |-> FScale(Rat(1, n), FAdd(FConst(One), b[i]))]
        total == FSum(adjusted)
    IN  {r \in BOOLEAN :
            \/ r /\ \/ \E i \in 1..n : -1 \in FSigns(adjusted[i])
                    \/ FSigns(total) # {1}
            \/ ~r /\ \A i \in 1..n : FSigns(adjusted[i]) # {-1}
                  /\ 1 \in FSigns(total)}

----------------------------------------------------------------------------
(* The random generator (numpy.random.default_rng).  The generator of a    *)
(* seed is a fixed function of the seed that the model does not compute.   *)
(* A real number it yields is a symbol named after the seed and the        *)
(* position.  An outcome of rng.choice is one of finitely many: the first  *)
(* time one is drawn at some position of a seed's stream any possible      *)
(* outcome can come, and streams keeps it, so that every later generator   *)
(* of that seed yields it again at that position.  seed = None takes the   *)
(* state from the operating system's entropy: nothing is kept.  A         *)
(* position is one call of a method of the generator.  The model writes    *)
(* -1 for seed = None; the negative seed it tries is -2.                   *)

\* seed = None
NoSeed == -1

\* the seeds that default_rng accepts
Seeds == 0..MaxSeed

\* a generator shared by all calls, which is seeded by the first call only
DefaultRngShared(seed) ==
    IF seed # NoSeed /\ seed < 0 THEN Raised
    ELSE IF pc # "idle" THEN Returned(rng)
    ELSE Returned([seed |-> seed, drawn |-> 0])

\* default_rng(seed): ValueError for a negative seed, a new generator at
\* the start of the stream of its seed otherwise
DefaultRng(seed) ==
    IF seed # NoSeed /\ seed < 0 THEN Raised
    ELSE Returned([seed |-> seed, drawn |-> 0])

\* the values generator g can yield next when asked the question q, of the
\* values S tried for q: the one on record when the same question was asked
\* at this position of the stream of its seed, any of S otherwise
RngNext(g, q, S) ==
    IF /\ g.seed # NoSeed
       /\ g.drawn < Len(streams[g.seed])
       /\ streams[g.seed][g.drawn + 1].asked.kind = q.kind
       /\ streams[g.seed][g.drawn + 1].asked.of = q.of
    THEN {streams[g.seed][g.drawn + 1].value}
    ELSE S

\* the generator after it has yielded a value
RngAfter(g) == [g EXCEPT !.drawn = @ + 1]

\* the record of the streams after g has answered q with v
StreamsAfter(g, q, v) ==
    IF g.seed # NoSeed /\ g.drawn = Len(streams[g.seed])
    THEN [streams EXCEPT ![g.seed] = Append(@, [asked |-> q, value |-> v])]
    ELSE streams

\* rng.normal(0.0, scale, size = n) on the generator g: ValueError for
\* scale < 0, otherwise 0.0 + scale * z_i for the standard normal deviates
\* z_1 .. z_n that g yields
RngNormal(g, scale, n) ==
    IF RLt(scale, Zero) THEN Raised
    ELSE Returned([i \in 1..n |->
                     FScale(scale, FSym(<<"normal", g.seed, g.drawn, i>>))])

\* rng.uniform(0, 2 * np.pi) on the generator g: the angle that g yields
RngUniform(g) == <<"uniform", g.seed, g.drawn>>

\* rng.choice(n, p = probs): outcome i (0-based) is drawn when the uniform
\* deviate u has cdf[i - 1] <= u < cdf[i], which some u in [0, 1) does
\* exactly when probs[i] > 0
ChoiceAsked(probs, size) == [kind |-> "choice", of |-> <<probs, size>>]
RngChoice(probs) == {i - 1 : i \in {j \in 1..Len(probs) : RLt(Zero, probs[j])}}

----------------------------------------------------------------------------
(* beta_drift (simulate.py).                                               *)

\* a validation that forgets the check of n_steps
DriftRejectsStepsUnchecked(cfg) ==
    \/ cfg.n_outcomes < 2
    \/ ~(RLt(Zero, cfg.clip) /\ RLt(cfg.clip, One))

\* beta_drift: the checks before the generator is made
DriftRejects(cfg) ==
    \/ cfg.n_outcomes < 2
    \/ cfg.n_steps <= 0
    \/ ~(RLt(Zero, cfg.clip) /\ RLt(cfg.clip, One))

\* sin_amplitude * sin(2 pi t / sin_period + phase) for sin_period > 0 and
\* the angle ph drawn as phase.  t / sin_period is taken modulo a whole
\* turn, and sin(x + pi) = -sin(x) brings it below half a turn.
Sinusoid(cfg, tt, ph) ==
    LET r == tt % cfg.sin_period
    IN  IF 2 * r >= cfg.sin_period
        THEN FScale(RNeg(cfg.sin_amplitude),
                    FSym(<<"sin", Rat(2 * r - cfg.sin_period,
                                      2 * cfg.sin_period), ph>>))
        ELSE FScale(cfg.sin_amplitude,
                    FSym(<<"sin", Rat(r, cfg.sin_period), ph>>))

\* beta_drift, loop body up to the clipping: current += noise,
\* current -= current.mean(), current[0] += sinusoid
DriftUnclipped(cur, noise, cfg, tt, ph) ==
    LET walked == [i \in 1..Len(cur) |-> FAdd(cur[i], noise[i])]
        mean == FScale(Rat(1, Len(cur)), FSum(walked))
        centred == [i \in 1..Len(cur) |->
                      FAdd(walked[i], FScale(<<-1, 1>>, mean))]
    IN  IF cfg.sin_period > 0 /\ cfg.sin_amplitude # Zero
        THEN [i \in 1..Len(cur) |->
                IF i = 1 THEN FAdd(centred[1], Sinusoid(cfg, tt, ph))
                ELSE centred[i]]
        ELSE centred

\* a clipping to [-1, 1] whatever config.clip is
DriftClipToOne(v, cfg) == [i \in 1..Len(v) |-> FClip(v[i], One)]

\* beta_drift: np.clip(current, -config.clip, config.clip)
DriftClip(v, cfg) == [i \in 1..Len(v) |-> FClip(v[i], cfg.clip)]

\* configurations tried
DriftConfigs ==
    [n_steps : 0..MaxSteps, n_outcomes : 1..MaxN,
     walk_scale : {<<-1, 2>>, Zero, <<1, 2>>, <<3, 2>>},
     sin_amplitude : {Zero, <<1, 2>>}, sin_period : {0, 4, 120},
     clip : {Zero, <<1, 2>>, <<19, 20>>, One},
     seed : Seeds \cup {NoSeed, -2}]

----------------------------------------------------------------------------
(* stream_draws and simulate_draws (simulate.py).                          *)

\* stream_draws: a series without rows is not 2D
StreamRejects(beta_series) == beta_series = <<>>

\* stream_draws, loop body: probs = wamecu_probabilities(n_outcomes,
\* beta_array[t]) for step tt (0-based); its exception propagates
StreamProbabilities(beta_series, tt) ==
    UtilsWamecuProbabilities(Len(beta_series[1]), beta_series[tt + 1])

\* |x - 1| > sqrt(eps) = 2^-26, the test of rng.choice on the sum of p
ChoiceRejectsSum(x) ==
    RLt(<<1, 67108864>>, RSub(RMax(x, One), RMin(x, One)))

\* simulate_draws up to the call of rng.choice: the exception, or the probs
\* handed to it.  probs is divided by its sum unless the sum is np.isclose
\* to 1 (a sum of 0 gives nan); rng.choice rejects an empty support, nan,
\* and a sum that differs from 1 by more than sqrt(eps)
SimulateDraws(probs, n_trials) ==
    IF \E i \in 1..Len(probs) : RLt(probs[i], Zero) THEN Raised
    ELSE IF n_trials <= 0 THEN Raised
    ELSE IF probs = <<>> THEN Raised
    ELSE LET total == VSum(probs)
         IN  IF total = Zero THEN Raised
             ELSE IF NpIsCloseToOne(total)
             THEN IF ChoiceRejectsSum(total) THEN Raised
                  ELSE Returned(probs)
             ELSE Returned(Normalise(probs))

\* arguments tried
DrawProbabilities ==
    Baselines \cup {<<>>, <<One, One>>, <<Zero, Zero>>,
                    <<(<<1, 4>>), (<<1, 4>>), (<<1, 2>>)>>}
BetaSeries ==
    SeqUpTo({<<Zero, Zero>>, <<(<<1, 2>>), (<<-1, 2>>)>>,
             <<(<<-2, 1>>), Zero>>}, MaxSteps)

----------------------------------------------------------------------------
(* The chi-square test in its two copies, and entropy_gap, as calls.       *)

\* metrics.chi_square_test(observed, expected): the statistic (the same
\* code as anomaly.chi_square_statistic)
ChiSquareTest(observed, expected) ==
    IF Len(observed) # Len(expected) THEN Raised
    ELSE IF \E i \in 1..Len(expected) : RLe(expected[i], Zero) THEN Raised
    ELSE Returned(VSum([i \in 1..Len(observed) |->
            LET d == RSub(observed[i], expected[i])
            IN  RMul(d, RDiv(d, expected[i]))]))

\* the outcome of a chi-square call: the exception, or the statistic with
\* the degrees of freedom dof = observed.size - 1 used for its p-value
ChiSquareOutcome(res, observed) ==
    IF res.raised THEN Raised
    ELSE Returned([statistic |-> res.value, dof |-> Len(observed) - 1])

\* count vectors and probability vectors tried
ObservedCounts == SeqUpTo({Zero, One, <<2, 1>>}, MaxN) \ {<<>>}
ProbabilityVectors ==
    Baselines \cup {<<One>>, <<(<<1, 2>>), (<<1, 4>>), (<<1, 4>>)>>,
                    <<One, (<<1, 1000>>)>>}

----------------------------------------------------------------------------
(* Inputs tried by the estimator calls. *)

\* alpha: 0 and 3/2 are outside (0, 1]
AlphaValues == {Zero, <<1, 4>>, <<1, 2>>, One, <<3, 2>>}

\* process_var and observation_var: 0 is invalid
VarianceValues == {Zero, <<1, 4>>, <<1, 2>>}

\* observation sequences for n outcomes: -1 and n are out of range
ObservationSeqs(n) == SeqUpTo(-1..n, MaxLen)

\* initial_probabilities for n outcomes: None, the weights 1, 2, .. of the
\* right length (not normalised), and a vector one too long
EwmaInitials(n) ==
    {None} \cup {Given([i \in 1..k |-> <<i, 1>>]) : k \in {n, n + 1}}

\* initial_beta for n outcomes: None, a vector of the right length whose
\* first entry is outside the clip range, and a vector one too long
KalmanInitials(n) ==
    {None} \cup {Given([i \in 1..k |-> IF i = 1 THEN <<3, 2>> ELSE Zero]) :
                    k \in {n, n + 1}}

----------------------------------------------------------------------------
(* The state machine of one call of a library function: its arguments are  *)
(* chosen when it starts, a call with a loop runs one iteration per step,  *)
(* and it ends in "returned" or "raised" with the locals it had at that    *)
(* point.  A behaviour is one call, or, where calls are compared, a call   *)
(* and the calls that follow it in the same process (CallAgainOnPrefix,    *)
(* CallAgain); rng and streams are not reset from one call to the next.    *)

CanCall == pc = "idle"

\* the variables of the calls not in progress hold their defaults
ResetLaw == /\ beta' = <<>>
            /\ p_utils' = NoCall
            /\ p_simulation' = NoCall

ResetEst == /\ observations' = <<>>
            /\ alpha' = Zero
            /\ process_var' = Zero
            /\ observation_var' = Zero
            /\ t' = 0
            /\ probabilities' = <<>>
            /\ state' = <<>>
            /\ covariance' = <<>>
            /\ beta_history' = <<>>
            /\ initial' = None

\* no estimator object has been constructed
NoEstimator == [n_outcomes |-> 0, smoothing |-> Zero,
                probabilities |-> <<>>, beta |-> <<>>]

Init == /\ fn = "none"
        /\ pc = "idle"
        /\ n_outcomes = 0
        /\ beta = <<>>
        /\ p_utils = NoCall
        /\ p_simulation = NoCall
        /\ observations = <<>>
        /\ alpha = Zero
        /\ process_var = Zero
        /\ observation_var = Zero
        /\ t = 0
        /\ probabilities = <<>>
        /\ state = <<>>
        /\ covariance = <<>>
        /\ beta_history = <<>>
        /\ initial = None
        /\ calls = <<>>
        /\ draws = <<>>
        /\ baseline_probabilities = <<>>
        /\ window_size = 0
        /\ end = 0
        /\ records = <<>>
        /\ estimator = NoEstimator
        /\ outcome = "none"
        /\ offered = 0
        /\ config = [n_steps |-> 0, n_outcomes |-> 0, walk_scale |-> Zero,
                    sin_amplitude |-> Zero, sin_period |-> 0,
                    clip |-> Zero, seed |-> 0]
        /\ rng = DefaultRng(NoSeed).value
        /\ streams = [seed \in Seeds |-> <<>>]
        /\ phase = <<>>
        /\ current = <<>>
        /\ unclipped = <<>>
        /\ betas = <<>>
        /\ args = <<>>
        /\ result = Returned(<<>>)

\* wamecu_probabilities(n, b), both implementations on the same arguments
CallWamecuProbabilities ==
    /\ CanCall
    /\ \E n \in 0..MaxN, b \in SeqUpTo(BetaValues, MaxN) :
          /\ fn' = "wamecu_probabilities"
          /\ n_outcomes' = n
          /\ beta' = b
          /\ p_utils' = UtilsWamecuProbabilities(n, b)
          /\ p_simulation' = SimulationWamecuProbabilities(n, b)
          /\ pc' = IF UtilsWamecuProbabilities(n, b).raised
                   THEN "raised" ELSE "returned"
    /\ ResetEst
    /\ UNCHANGED <<calls, rollVars, objVars, simVars>>

\* ewma_estimator(obs, n, alpha = a, initial_probabilities = init): the
\* code before the loop
EwmaEnter(obs, n, a, init) ==
    /\ fn' = "ewma_estimator"
    /\ n_outcomes' = n
    /\ observations' = obs
    /\ alpha' = a
    /\ initial' = init
    /\ IF EwmaRejects(n, a, init)
       THEN pc' = "raised" /\ probabilities' = <<>>
       ELSE pc' = "loop" /\ probabilities' = EwmaStart(n, init)
    /\ t' = 0
    /\ beta_history' = <<>>
    /\ process_var' = Zero /\ observation_var' = Zero
    /\ state' = <<>> /\ covariance' = <<>>

\* a call of ewma_estimator with any of the arguments tried
CallEwma ==
    /\ CanCall
    /\ \E n \in 1..MaxN, a \in AlphaValues :
       \E obs \in ObservationSeqs(n), init \in EwmaInitials(n) :
          EwmaEnter(obs, n, a, init)
    /\ ResetLaw
    /\ UNCHANGED <<calls, rollVars, objVars, simVars>>

\* ewma_estimator: one iteration of the loop over obs_array
EwmaLoop ==
    /\ fn = "ewma_estimator" /\ pc = "loop" /\ t < Len(observations)
    /\ IF ~InRange(observations[t + 1], n_outcomes)
       THEN pc' = "raised" /\ UNCHANGED <<t, probabilities, beta_history>>
       ELSE LET p == EwmaLoopBody(probabilities, observations, t,
                                  n_outcomes, alpha)
            IN  /\ probabilities' = p
                /\ beta_history' = Append(beta_history, EwmaBeta(p, n_outcomes))
                /\ t' = t + 1
                /\ pc' = "loop"
    /\ UNCHANGED <<fn, n_outcomes, lawVars, observations, alpha, process_var,
                   observation_var, state, covariance, initial>>
    /\ UNCHANGED <<calls, rollVars, objVars, simVars>>

\* ewma_estimator: return beta_history
EwmaReturn ==
    /\ fn = "ewma_estimator" /\ pc = "loop" /\ t = Len(observations)
    /\ pc' = "returned"
    /\ UNCHANGED <<fn, n_outcomes, lawVars, estVars>>
    /\ UNCHANGED <<calls, rollVars, objVars, simVars>>

\* kalman_tracker(obs, n, process_var = q, observation_var = r,
\* initial_beta = init): the code before the loop
KalmanEnter(obs, n, q, r, init) ==
    /\ fn' = "kalman_tracker"
    /\ n_outcomes' = n
    /\ observations' = obs
    /\ process_var' = q
    /\ observation_var' = r
    /\ initial' = init
    /\ IF KalmanRejects(n, q, r, init)
       THEN pc' = "raised" /\ state' = <<>> /\ covariance' = <<>>
       ELSE /\ pc' = "loop"
            /\ state' = KalmanStart(n, init)
            /\ covariance' = VFull(n, InitialVariance)
    /\ t' = 0
    /\ beta_history' = <<>>
    /\ alpha' = Zero
    /\ probabilities' = <<>>

\* a call of kalman_tracker with any of the arguments tried
CallKalman ==
    /\ CanCall
    /\ \E n \in 1..MaxN, q \in VarianceValues, r \in VarianceValues :
       \E obs \in ObservationSeqs(n), init \in KalmanInitials(n) :
          KalmanEnter(obs, n, q, r, init)
    /\ ResetLaw
    /\ UNCHANGED <<calls, rollVars, objVars, simVars>>

\* kalman_tracker: one iteration of the loop over obs_array
KalmanLoop ==
    /\ fn = "kalman_tracker" /\ pc = "loop" /\ t < Len(observations)
    /\ IF ~InRange(observations[t + 1], n_outcomes)
       THEN pc' = "raised" /\ UNCHANGED <<t, state, covariance, beta_history>>
       ELSE LET st == KalmanState(state, covariance, observations, t,
                                  n_outcomes, process_var, observation_var)
            IN  /\ state' = st
                /\ covariance' = KalmanCovariance(covariance, process_var,
                                                  observation_var)
                /\ beta_history' = Append(beta_history, st)
                /\ t' = t + 1
                /\ pc' = "loop"
    /\ UNCHANGED <<fn, n_outcomes, lawVars, observations, alpha, process_var,
                   observation_var, probabilities, initial>>
    /\ UNCHANGED <<calls, rollVars, objVars, simVars>>

\* kalman_tracker: return beta_history
KalmanReturn ==
    /\ fn = "kalman_tracker" /\ pc = "loop" /\ t = Len(observations)
    /\ pc' = "returned"
    /\ UNCHANGED <<fn, n_outcomes, lawVars, estVars>>
    /\ UNCHANGED <<calls, rollVars, objVars, simVars>>

NextEwma == CallEwma \/ EwmaLoop \/ EwmaReturn
NextKalman == CallKalman \/ KalmanLoop \/ KalmanReturn

\* the probability law alone
SpecLaw == Init /\ [][CallWamecuProbabilities]_vars
\* ewma_estimator alone
SpecEwma == Init /\ [][NextEwma]_vars
\* kalman_tracker alone
SpecKalman == Init /\ [][NextKalman]_vars
\* a call of ewma_estimator with valid arguments
CallEwmaValid ==
    /\ CanCall
    /\ \E n \in 2..MaxN, a \in AlphaValues :
       \E obs \in SeqUpTo(0..(n - 1), MaxLen), init \in EwmaInitials(n) :
          /\ ~EwmaRejects(n, a, init)
          /\ EwmaEnter(obs, n, a, init)
    /\ ResetLaw
    /\ UNCHANGED <<calls, rollVars, objVars, simVars>>

\* a call of kalman_tracker with valid arguments
CallKalmanValid ==
    /\ CanCall
    /\ \E n \in 2..MaxN, q \in VarianceValues, r \in VarianceValues :
       \E obs \in SeqUpTo(0..(n - 1), MaxLen), init \in KalmanInitials(n) :
          /\ ~KalmanRejects(n, q, r, init)
          /\ KalmanEnter(obs, n, q, r, init)
    /\ ResetLaw
    /\ UNCHANGED <<calls, rollVars, objVars, simVars>>

\* after an estimator call has returned, the same estimator is called
\* again on a proper prefix of the same observations, with the same
\* hyperparameters and initial state; the first call is remembered
CallAgainOnPrefix ==
    /\ pc = "returned" /\ calls = <<>>
    /\ fn \in {"ewma_estimator", "kalman_tracker"}
    /\ calls' = <<[observations |-> observations,
                   result |-> Returned(beta_history)]>>
    /\ \E k \in 0..(Len(observations) - 1) :
          IF fn = "ewma_estimator"
          THEN EwmaEnter(SubSeq(observations, 1, k), n_outcomes, alpha, initial)
          ELSE KalmanEnter(SubSeq(observations, 1, k), n_outcomes, process_var,
                           observation_var, initial)
    /\ UNCHANGED <<lawVars, rollVars, objVars, simVars>>

\* an estimator call followed by a call on a prefix of its input
SpecPrefix ==
    Init /\ [][CallEwmaValid \/ EwmaLoop \/ EwmaReturn
               \/ CallKalmanValid \/ KalmanLoop \/ KalmanReturn
               \/ CallAgainOnPrefix]_vars

\* rolling_anomaly_scores(d, baseline, w): the code before the loop
CallRolling ==
    /\ CanCall
    /\ \E baseline \in Baselines, w \in 1..MaxWindow :
       \E d \in DrawSeqs(baseline) :
          /\ fn' = "rolling_anomaly_scores"
          /\ n_outcomes' = Len(baseline)
          /\ draws' = d
          /\ baseline_probabilities' = baseline
          /\ window_size' = w
          /\ end' = w
          /\ pc' = IF RollingRejects(d, baseline, w) THEN "raised" ELSE "loop"
    /\ records' = <<>>
    /\ ResetLaw /\ ResetEst
    /\ UNCHANGED <<calls, objVars, simVars>>

\* rolling_anomaly_scores: one iteration of
\* `for end in range(window_size, draws.size + 1)`
RollingLoop ==
    /\ fn = "rolling_anomaly_scores" /\ pc = "loop" /\ end <= Len(draws)
    /\ LET rec == RollingRecord(draws, baseline_probabilities, window_size, end)
       IN  IF rec.raised
           THEN pc' = "raised" /\ UNCHANGED <<end, records>>
           ELSE /\ records' = Append(records, rec.value)
                /\ end' = end + 1
                /\ pc' = "loop"
    /\ UNCHANGED <<fn, n_outcomes, lawVars, estVars, calls, draws,
                   baseline_probabilities, window_size, objVars, simVars>>

\* rolling_anomaly_scores: return the records
RollingReturn ==
    /\ fn = "rolling_anomaly_scores" /\ pc = "loop" /\ end = Len(draws) + 1
    /\ pc' = "returned"
    /\ UNCHANGED <<fn, n_outcomes, lawVars, estVars, calls, rollVars, objVars, simVars>>

NextRolling == CallRolling \/ RollingLoop \/ RollingReturn

\* rolling_anomaly_scores alone
SpecRolling == Init /\ [][NextRolling]_vars

\* the three functions that loop over a draw stream
SpecStreaming == Init /\ [][NextEwma \/ NextKalman \/ NextRolling]_vars

\* AdaptiveBetaEstimator(n, s); of the smoothing factors tried 0 and 3/2
\* are outside (0, 1]
Construct ==
    /\ CanCall /\ estimator = NoEstimator /\ outcome = "none"
    /\ \E n \in 0..MaxN, s \in {Zero, <<1, 2>>, One, <<3, 2>>} :
          LET made == AdaptiveInit(n, s)
          IN  /\ estimator' = IF made.raised THEN NoEstimator ELSE made.value
              /\ outcome' = IF made.raised THEN "raised" ELSE "constructed"
    /\ fn' = "__init__"
    /\ UNCHANGED <<pc, n_outcomes, lawVars, estVars, calls, rollVars, offered,
                   simVars>>

\* estimator.update(observation); the calls made on the estimator are put on
\* record in calls
Update ==
    /\ estimator # NoEstimator /\ offered < MaxOffered
    /\ \E observation \in -1..estimator.n_outcomes :
          \E res \in {AdaptiveUpdate(estimator, observation)} :
              /\ estimator' = res.estimator
              /\ outcome' = IF res.raised THEN "raised" ELSE "returned"
              /\ calls' = Append(calls, [fn |-> "update",
                                         observations |-> <<observation>>,
                                         raised |-> res.raised])
    /\ fn' = "update"
    /\ offered' = offered + 1
    /\ UNCHANGED <<pc, n_outcomes, lawVars, estVars, rollVars, simVars>>

\* estimator.batch_update(obs)
BatchUpdate ==
    /\ estimator # NoEstimator /\ offered < MaxOffered
    /\ \E obs \in SeqUpTo(-1..estimator.n_outcomes, MaxOffered - offered) :
          \E res \in {AdaptiveBatchUpdate(estimator, obs)} :
              /\ estimator' = res.estimator
              /\ outcome' = IF res.raised THEN "raised" ELSE "returned"
              /\ offered' = offered + (IF obs = <<>> THEN 1 ELSE Len(obs))
              /\ calls' = Append(calls, [fn |-> "batch_update",
                                         observations |-> obs,
                                         raised |-> res.raised])
    /\ fn' = "batch_update"
    /\ UNCHANGED <<pc, n_outcomes, lawVars, estVars, rollVars, simVars>>

\* one AdaptiveBetaEstimator and the calls made on it
SpecAdaptive == Init /\ [][Construct \/ Update \/ BatchUpdate]_vars

ResetDrift == /\ current' = <<>> /\ unclipped' = <<>> /\ betas' = <<>>
              /\ phase' = <<>>

\* beta_drift(cfg): the code before the loop
DriftEnter(cfg) ==
    /\ config' = cfg
    /\ n_outcomes' = cfg.n_outcomes
    /\ \E g \in {DefaultRng(cfg.seed)} :
          IF DriftRejects(cfg) \/ g.raised
          THEN /\ pc' = "raised"
               /\ ResetDrift
               /\ UNCHANGED <<rng, streams>>
          ELSE /\ pc' = "loop"
               /\ phase' = RngUniform(g.value)
               /\ rng' = RngAfter(g.value)
               /\ UNCHANGED streams
               /\ current' = VFull(cfg.n_outcomes, FConst(Zero))
               /\ unclipped' = <<>>
               /\ betas' = <<>>
    /\ fn' = "beta_drift"
    /\ t' = 0
    /\ UNCHANGED <<lawVars, observations, alpha, process_var, observation_var,
                   probabilities, state, covariance, beta_history, initial,
                   rollVars, objVars, args, result>>

\* a call of beta_drift with any of the configurations tried
CallBetaDrift ==
    /\ CanCall
    /\ \E cfg \in DriftConfigs : DriftEnter(cfg)
    /\ UNCHANGED calls

\* beta_drift: one iteration of `for t in range(config.n_steps)`; the
\* exception of rng.normal ends the call
DriftLoop ==
    /\ fn = "beta_drift" /\ pc = "loop" /\ t < config.n_steps
    /\ \E noise \in {RngNormal(rng, config.walk_scale, config.n_outcomes)} :
          IF noise.raised
          THEN /\ pc' = "raised"
               /\ UNCHANGED <<rng, t, current, unclipped, betas>>
          ELSE \E raw \in {DriftUnclipped(current, noise.value, config, t,
                                           phase)} :
                  /\ unclipped' = raw
                  /\ current' = DriftClip(raw, config)
                  /\ betas' = Append(betas, DriftClip(raw, config))
                  /\ rng' = RngAfter(rng)
                  /\ t' = t + 1
                  /\ pc' = "loop"
    /\ UNCHANGED <<fn, n_outcomes, lawVars, observations, alpha,
                   process_var, observation_var, probabilities, state,
                   covariance, beta_history, initial, calls, rollVars,
                   objVars, config, streams, phase, args, result>>

\* beta_drift: return betas
DriftReturn ==
    /\ fn = "beta_drift" /\ pc = "loop" /\ t = config.n_steps
    /\ pc' = "returned"
    /\ UNCHANGED <<fn, n_outcomes, lawVars, estVars, calls, rollVars, objVars,
                   simVars>>

NextDrift == CallBetaDrift \/ DriftLoop \/ DriftReturn

\* beta_drift alone
SpecDrift == Init /\ [][NextDrift]_vars

\* chi_square_statistic(observed, expected) of anomaly.py and
\* chi_square_test(observed, expected) of metrics.py on the same arguments
CallChiSquare ==
    /\ CanCall
    /\ \E observed \in ObservedCounts, 
          expected \in SeqUpTo({<<-1, 1>>, Zero, <<1, 2>>, <<2, 1>>}, MaxN)
                          \ {<<>>} :
          /\ args' = [observed |-> observed, expected |-> expected]
          /\ result' =
               [anomaly |-> ChiSquareOutcome(
                                ChiSquareStatistic(observed, expected), observed),
                metrics |-> ChiSquareOutcome(
                                ChiSquareTest(observed, expected), observed)]
          /\ pc' = IF ChiSquareStatistic(observed, expected).raised
                   THEN "raised" ELSE "returned"
    /\ fn' = "chi_square_statistic"
    /\ UNCHANGED <<n_outcomes, lawVars, estVars, calls, rollVars, objVars,
                   driftVars>>

\* entropy_gap(empirical_prob, baseline_prob); the returned entropy
\* difference needs log2 and is not modelled
CallEntropyGap ==
    /\ CanCall
    /\ \E empirical_prob \in ProbabilityVectors,
          baseline_prob \in ProbabilityVectors :
          /\ args' = [empirical_prob |-> empirical_prob,
                      baseline_prob |-> baseline_prob]
          /\ result' = IF EntropyGapRejects(empirical_prob, baseline_prob)
                       THEN Raised ELSE Returned(<<>>)
          /\ pc' = IF EntropyGapRejects(empirical_prob, baseline_prob)
                   THEN "raised" ELSE "returned"
    /\ fn' = "entropy_gap"
    /\ UNCHANGED <<n_outcomes, lawVars, estVars, calls, rollVars, objVars,
                   driftVars>>

\* the chi-square test and the entropy gap
SpecTests == Init /\ [][CallChiSquare \/ CallEntropyGap]_vars

\* the three functions that validate static parameters
SpecParameters == Init /\ [][NextDrift \/ NextEwma \/ NextKalman]_vars

\* simulate_draws(probabilities, n_trials, seed)
SimulateEnter(a) ==
    /\ args' = a
    /\ \E probs \in {SimulateDraws(a.probabilities, a.n_trials)} :
          IF probs.raised
          THEN /\ pc' = "raised"
               /\ result' = Raised
               /\ UNCHANGED <<rng, streams>>
          ELSE \E g \in {DefaultRng(a.seed)} :
               IF g.raised
               THEN /\ pc' = "raised"
                    /\ result' = Raised
                    /\ UNCHANGED <<rng, streams>>
               ELSE \E d \in RngNext(g.value,
                                     ChoiceAsked(probs.value, a.n_trials),
                                     [1..a.n_trials -> RngChoice(probs.value)]) :
                       /\ pc' = "returned"
                       /\ result' = Returned(d)
                       /\ rng' = RngAfter(g.value)
                       /\ streams' = StreamsAfter(g.value,
                                          ChoiceAsked(probs.value, a.n_trials),
                                          d)
    /\ fn' = "simulate_draws"
    /\ UNCHANGED <<n_outcomes, lawVars, estVars, rollVars, objVars, config,
                   phase, current, unclipped, betas>>

CallSimulateDraws ==
    /\ CanCall
    /\ \E p \in DrawProbabilities, k \in 0..MaxSteps,
          seed \in Seeds \cup {NoSeed, -2} :
          SimulateEnter([probabilities |-> p, n_trials |-> k, seed |-> seed])
    /\ UNCHANGED calls

\* stream_draws(beta_series, seed): the code before the loop; result holds
\* the draws made so far
StreamEnter(a) ==
    /\ args' = a
    /\ \E g \in {DefaultRng(a.seed)} :
          IF StreamRejects(a.beta_series) \/ g.raised
          THEN /\ pc' = "raised"
               /\ result' = Raised
               /\ UNCHANGED rng
          ELSE /\ pc' = "loop"
               /\ result' = Returned(<<>>)
               /\ rng' = g.value
    /\ fn' = "stream_draws"
    /\ t' = 0
    /\ UNCHANGED <<n_outcomes, lawVars, observations, alpha, process_var,
                   observation_var, probabilities, state, covariance,
                   beta_history, initial, rollVars, objVars, config, streams,
                   phase, current, unclipped, betas>>

CallStreamDraws ==
    /\ CanCall
    /\ \E series \in BetaSeries, seed \in Seeds \cup {NoSeed, -2} :
          StreamEnter([beta_series |-> series, seed |-> seed])
    /\ UNCHANGED calls

\* stream_draws: one iteration of `for t in range(n_steps)`
StreamLoop ==
    /\ fn = "stream_draws" /\ pc = "loop" /\ t < Len(args.beta_series)
    /\ \E probs \in {StreamProbabilities(args.beta_series, t)} :
          IF probs.raised
          THEN /\ pc' = "raised"
               /\ UNCHANGED <<t, result, rng, streams>>
          ELSE \E d \in RngNext(rng, ChoiceAsked(probs.value, 0),
                                RngChoice(probs.value)) :
                  /\ result' = Returned(Append(result.value, d))
                  /\ rng' = RngAfter(rng)
                  /\ streams' = StreamsAfter(rng, ChoiceAsked(probs.value, 0), d)
                  /\ t' = t + 1
                  /\ pc' = "loop"
    /\ UNCHANGED <<fn, n_outcomes, lawVars, observations, alpha, process_var,
                   observation_var, probabilities, state, covariance,
                   beta_history, initial, calls, rollVars, objVars, config,
                   phase, current, unclipped, betas, args>>

\* stream_draws: return draws
StreamReturn ==
    /\ fn = "stream_draws" /\ pc = "loop" /\ t = Len(args.beta_series)
    /\ pc' = "returned"
    /\ UNCHANGED <<fn, n_outcomes, lawVars, estVars, calls, rollVars, objVars,
                   simVars>>

\* the result of the call that has ended
Outcome ==
    IF pc = "raised" THEN Raised
    ELSE IF fn = "beta_drift" THEN Returned(betas) ELSE result

\* a later invocation in the same process.  The call that has ended is put
\* on record, and the first call on record (seed not None) is invoked
\* again with the same arguments and seed; before that, once, another of
\* the seeded functions may be invoked on the same seed in between.
CallAgain ==
    /\ pc \in {"returned", "raised"} /\ Len(calls) < 2
    /\ fn \in {"beta_drift", "simulate_draws", "stream_draws"}
    /\ \E ended \in {[fn |-> fn,
                       args |-> IF fn = "beta_drift" THEN config ELSE args,
                       result |-> Outcome]} :
       \E first \in {IF calls = <<>> THEN ended ELSE calls[1]} :
          /\ first.args.seed # NoSeed
          /\ calls' = Append(calls, ended)
          /\ \/ IF first.fn = "beta_drift" THEN DriftEnter(first.args)
                ELSE IF first.fn = "simulate_draws"
                THEN SimulateEnter(first.args)
                ELSE StreamEnter(first.args)
             \/ /\ calls = <<>> /\ first.args.seed \in Seeds
                /\ \/ /\ first.fn # "simulate_draws"
                      /\ SimulateEnter([probabilities |->
                                           <<(<<1, 2>>), (<<1, 2>>)>>,
                                        n_trials |-> 1,
                                        seed |-> first.args.seed])
                   \/ /\ first.fn # "stream_draws"
                      /\ StreamEnter([beta_series |-> << <<Zero, Zero>> >>,
                                      seed |-> first.args.seed])
                   \/ /\ first.fn # "beta_drift"
                      /\ DriftEnter([n_steps |-> 1, n_outcomes |-> 2,
                                     walk_scale |-> <<1, 2>>,
                                     sin_amplitude |-> Zero, sin_period |-> 0,
                                     clip |-> <<1, 2>>,
                                     seed |-> first.args.seed])

\* the seeded operations: a call, possibly a call of another of them on the
\* same seed, and the first call again
SpecSeeded ==
    Init /\ [][NextDrift \/ CallSimulateDraws \/ CallStreamDraws \/ StreamLoop
               \/ StreamReturn \/ CallAgain]_vars

\* outcome_correlation_matrix(d, n)
CallCorrelation ==
    /\ CanCall
    /\ \E n \in 0..MaxN :
       \E d \in CorrelationDraws(n) :
          /\ n_outcomes' = n
          /\ draws' = d
          /\ result' = OutcomeCorrelationMatrix(d, n)
          /\ pc' = IF OutcomeCorrelationMatrix(d, n).raised
                   THEN "raised" ELSE "returned"
    /\ fn' = "outcome_correlation_matrix"
    /\ UNCHANGED <<lawVars, estVars, calls, baseline_probabilities, window_size,
                   end, records, objVars, driftVars, args>>

\* the diagnostics that take a draw sequence
SpecDiagnostics == Init /\ [][NextRolling \/ CallCorrelation]_vars

\* both streaming estimators
SpecEstimators == Init /\ [][NextEwma \/ NextKalman]_vars

----------------------------------------------------------------------------
(* Claims about the probability law. *)

\* the masses 1 + beta_i, before the factor 1 / n_outcomes
Masses(b) == [i \in 1..Len(b) |-> RAdd(One, b[i])]

\* C1: for n_outcomes >= 2 and a beta of that length with every
\* 1 + beta_i >= 0 and a positive sum of them, utils.wamecu_probabilities
\* returns p with p_i = (1 + beta_i) / sum_j (1 + beta_j); every p_i >= 0,
\* the p_i sum to 1, and beta = 0 gives the uniform vector.
C1_LawNormalises ==
    (/\ fn = "wamecu_probabilities"
     /\ n_outcomes >= 2
     /\ Len(beta) = n_outcomes
     /\ \A i \in 1..Len(beta) : RLe(Zero, Masses(beta)[i])
     /\ RLt(Zero, VSum(Masses(beta))))
    => /\ ~p_utils.raised
       /\ Len(p_utils.value) = n_outcomes
       /\ \A i \in 1..n_outcomes :
             /\ p_utils.value[i] = RDiv(Masses(beta)[i], VSum(Masses(beta)))
             /\ RLe(Zero, p_utils.value[i])
       /\ VSum(p_utils.value) = One
       /\ ((\A i \in 1..n_outcomes : beta[i] = Zero)
             => p_utils.value = VFull(n_outcomes, Rat(1, n_outcomes)))

\* a call with a valid, non-uniform beta that has a zero-mass outcome
C1_Witness ==
    /\ fn = "wamecu_probabilities"
    /\ n_outcomes = 3
    /\ beta = <<(<<1, 2>>), (<<-1, 1>>), Zero>>
    /\ p_utils = Returned(<<(<<3, 5>>), Zero, (<<2, 5>>)>>)

\* C2: wamecu_probabilities raises exactly when len(beta) # n_outcomes, or
\* some adjusted mass is negative, or the adjusted masses sum to <= 0 (it
\* never turns such a beta into a vector), and utils.wamecu_probabilities
\* and simulation.wamecu_probabilities accept and reject the same inputs.
C2_LawRejectsExactly ==
    fn = "wamecu_probabilities"
    => /\ p_utils.raised <=>
             \/ Len(beta) # n_outcomes
             \/ \E i \in 1..Len(beta) : RLt(Masses(beta)[i], Zero)
             \/ RLe(VSum(Masses(beta)), Zero)
       /\ p_simulation.raised <=> p_utils.raised
       /\ p_utils.raised => p_utils.value = <<>>

\* a beta of the right length with a negative mass, rejected by both
C2_Witness ==
    /\ fn = "wamecu_probabilities"
    /\ n_outcomes = 3
    /\ beta = <<(<<1, 2>>), (<<1, 2>>), (<<-2, 1>>)>>
    /\ p_utils.raised /\ p_simulation.raised

----------------------------------------------------------------------------
(* Claims about the streaming estimators. *)

IsEstimator == fn \in {"ewma_estimator", "kalman_tracker"}

\* the call in progress passes the checks made before the loop
ValidHyperparameters ==
    \/ fn = "ewma_estimator" /\ ~EwmaRejects(n_outcomes, alpha, initial)
    \/ fn = "kalman_tracker"
          /\ ~KalmanRejects(n_outcomes, process_var, observation_var, initial)

AllInRange(obs, n) == \A i \in 1..Len(obs) : InRange(obs[i], n)

\* a vector of length n, every component a finite number in [-0.99, 0.99]
IsBetaRow(row, n) ==
    /\ Len(row) = n
    /\ \A i \in 1..n : /\ PLow(Den(row[i])) > 0
                       /\ RLe(RNeg(ClipBound), row[i])
                       /\ RLe(row[i], ClipBound)

\* C3: a valid call of ewma_estimator or kalman_tracker (n_outcomes >= 2,
\* valid hyperparameters, every observation in [0, n_outcomes)) does not
\* raise, has emitted exactly one row per observation consumed so far (so
\* the returned history has one row per observation, none for an empty
\* input), and every emitted row has length n_outcomes with finite
\* components in [-0.99, 0.99].
C3_OneBoundedRowPerObservation ==
    (IsEstimator /\ ValidHyperparameters
        /\ AllInRange(observations, n_outcomes))
    => /\ pc # "raised"
       /\ Len(beta_history) = t
       /\ pc = "returned" => Len(beta_history) = Len(observations)
       /\ \A k \in 1..Len(beta_history) :
             IsBetaRow(beta_history[k], n_outcomes)

\* a returned ewma history of full length with a component at the clip
C3_Witness ==
    /\ fn = "ewma_estimator" /\ pc = "returned"
    /\ Len(observations) = MaxLen
    /\ Len(beta_history) = MaxLen
    /\ \E k \in 1..MaxLen : beta_history[k][1] = ClipBound

\* a returned kalman history of full length (second witness state, used
\* by C6)
KalmanReturnedFull ==
    /\ fn = "kalman_tracker" /\ pc = "returned"
    /\ Len(observations) = MaxLen
    /\ Len(beta_history) = MaxLen

\* C4: no look-ahead.  For a valid observation sequence s and k < len(s),
\* the history ewma_estimator (resp. kalman_tracker) returns on the prefix
\* s[0..k) is the first k rows of the history it returned on s with the
\* same hyperparameters and initial state, and while the second call runs
\* the rows it has written are the first rows of that history: row t
\* depends on observations 0..t only.
C4_PrefixHistory ==
    (IsEstimator /\ Len(calls) = 1)
    => /\ pc # "raised"
       /\ Len(calls[1].result.value) = Len(calls[1].observations)
       /\ observations
             = SubSeq(calls[1].observations, 1, Len(observations))
       /\ beta_history = SubSeq(calls[1].result.value, 1, t)
       /\ pc = "returned" => t = Len(observations)

\* kalman_tracker has returned on a prefix that is one observation short
\* of a full-length first call whose last observation differs from its
\* first
C4_Witness ==
    /\ Len(calls) = 1 /\ pc = "returned"
    /\ fn = "kalman_tracker"
    /\ Len(calls[1].observations) = MaxLen
    /\ Len(observations) = MaxLen - 1
    /\ calls[1].observations[MaxLen] # calls[1].observations[1]
    /\ Len(beta_history) = MaxLen - 1

\* observations 1..k of the call are all the same outcome
ConstantUpTo(k) == \A i \in 1..k : observations[i] = observations[1]

RECURSIVE RPow(_, _)
RPow(x, k) == IF k = 0 THEN One ELSE RMul(x, RPow(x, k - 1))

\* C5: in ewma_estimator started from the default uniform state with a
\* valid alpha, while the same observation o is fed at every step, each
\* step leaves the tracked probability of o no smaller and every other
\* tracked probability no larger, the emitted beta_o never decreases and
\* the other emitted components never increase; for alpha < 1 the distance
\* of the tracked probability of o from 1 after k steps is
\* (1 - alpha)^k * (1 - 1/n) and the others are (1 - alpha)^k / n
\* (geometric convergence to 1 and to 0), and for alpha = 1 the others sit
\* at the renormalised floor.
C5_ConstantObservationMonotone ==
    [][(/\ fn = "ewma_estimator" /\ pc = "loop" /\ t' = t + 1
        /\ ~initial.given
        /\ ConstantUpTo(t + 1))
       => LET o == observations[1] + 1
              n == n_outcomes
              shrink == RPow(RSub(One, alpha), t + 1)
          IN  /\ RLe(probabilities[o], probabilities'[o])
              /\ \A j \in 1..n : j # o =>
                    RLe(probabilities'[j], probabilities[j])
              /\ t >= 1 =>
                    /\ RLe(beta_history'[t][o], beta_history'[t + 1][o])
                    /\ \A j \in 1..n : j # o =>
                          RLe(beta_history'[t + 1][j], beta_history'[t][j])
              /\ RLt(alpha, One) =>
                    /\ RSub(One, probabilities'[o])
                          = RMul(shrink, RSub(One, Rat(1, n)))
                    /\ \A j \in 1..n : j # o =>
                          probabilities'[j] = RMul(shrink, Rat(1, n))
              /\ alpha = One =>
                    \A j \in 1..n : j # o =>
                       probabilities'[j]
                          = RDiv(Floor, RAdd(One, RMul(<<n - 1, 1>>, Floor)))
      ]_vars

\* the same observation fed MaxLen times from the uniform state, alpha < 1
C5_Witness ==
    /\ fn = "ewma_estimator" /\ pc = "returned"
    /\ ~initial.given /\ RLt(alpha, One)
    /\ t = MaxLen /\ ConstantUpTo(MaxLen)
    /\ RLt(beta_history[1][observations[1] + 1],
           beta_history[2][observations[1] + 1])

\* process_var * (observation_var - 0.25) <= 0.0625: the first predict and
\* update does not raise the variance above its initial 0.25
VarianceContracts(q, r) ==
    RLe(RMul(q, RSub(r, InitialVariance)), <<1, 16>>)

\* C6 as stated: for every process_var > 0 and observation_var > 0 the
\* variance held after an observation is <= the variance held before it.
C6_VarianceNeverIncreases ==
    [][(fn = "kalman_tracker" /\ pc = "loop" /\ t' = t + 1)
       => \A i \in 1..n_outcomes : RLe(covariance'[i], covariance[i])]_vars

\* C6, amended: for process_var > 0 and observation_var > 0 with
\* process_var * (observation_var - 0.25) <= 0.0625 the per-outcome variance
\* held after an observation is <= the variance held before it, starting
\* from 0.25; for every other pair it is >= (the recursion is monotone and
\* moves towards its fixed point, which then lies above 0.25).
C6_VarianceMonotone ==
    [][(fn = "kalman_tracker" /\ pc = "loop" /\ t' = t + 1)
       => \A i \in 1..n_outcomes :
             IF VarianceContracts(process_var, observation_var)
             THEN RLe(covariance'[i], covariance[i])
             ELSE RLe(covariance[i], covariance'[i])]_vars

\* a full run whose variance has strictly dropped below 0.25
C6_Witness ==
    /\ KalmanReturnedFull
    /\ VarianceContracts(process_var, observation_var)
    /\ RLt(covariance[1], InitialVariance)

----------------------------------------------------------------------------
\* C7: a call of AdaptiveBetaEstimator.update or batch_update that raises
\* leaves the estimator's fields _probabilities and beta_ as they were.
C7_FailedUpdateLeavesEstimator ==
    [][(fn' \in {"update", "batch_update"} /\ outcome' = "raised")
         => /\ estimator'.probabilities = estimator.probabilities
            /\ estimator'.beta = estimator.beta]_vars

\* an estimator that has learnt from one call and then rejected the next
C7_Witness ==
    /\ fn \in {"update", "batch_update"} /\ outcome = "raised"
    /\ offered >= 2
    /\ estimator.n_outcomes >= 2
    /\ estimator.beta # VFull(estimator.n_outcomes, Zero)
    /\ estimator.probabilities
         # VFull(estimator.n_outcomes, Rat(1, estimator.n_outcomes))

----------------------------------------------------------------------------
\* the checks of the static parameters, restated from the text of the claims
EwmaStaticError ==
    \/ n_outcomes < 2
    \/ ~(RLt(Zero, alpha) /\ RLe(alpha, One))
    \/ initial.given /\ Len(initial.value) # n_outcomes

KalmanStaticError ==
    \/ n_outcomes < 2
    \/ ~RLt(Zero, process_var) \/ ~RLt(Zero, observation_var)
    \/ initial.given /\ Len(initial.value) # n_outcomes

RollingStaticError ==
    \/ window_size <= 1
    \/ Len(draws) < window_size
    \/ \E i \in 1..Len(baseline_probabilities) :
          RLt(baseline_probabilities[i], Zero)
    \/ ~NpIsCloseToOne(VSum(baseline_probabilities))

\* the estimator in fn stopped at the first out-of-range observation, after
\* one update step for each observation before it
StoppedAtBadObservation ==
    /\ t < Len(observations)
    /\ ~InRange(observations[t + 1], n_outcomes)
    /\ \A i \in 1..t : InRange(observations[i], n_outcomes)
    /\ Len(beta_history) = t

\* C8 as stated: whenever ewma_estimator, kalman_tracker or
\* rolling_anomaly_scores fails, no update step and no diagnostic record has
\* been computed.
C8_ErrorsDetectedEagerly ==
    (pc = "raised" /\ fn \in {"ewma_estimator", "kalman_tracker",
                              "rolling_anomaly_scores"})
      => t = 0 /\ beta_history = <<>> /\ records = <<>>

\* C8, amended: an error in the static parameters is detected before any
\* update step or record is computed; an out-of-range observation at
\* position k is detected when the loop reaches it, after exactly the k
\* update steps (or the complete windows) that precede it.
C8_ErrorsDetectedWhenReached ==
    /\ (pc = "raised" /\ fn = "ewma_estimator")
         => IF EwmaStaticError THEN t = 0 /\ beta_history = <<>>
            ELSE StoppedAtBadObservation
    /\ (pc = "raised" /\ fn = "kalman_tracker")
         => IF KalmanStaticError THEN t = 0 /\ beta_history = <<>>
            ELSE StoppedAtBadObservation
    /\ (pc = "raised" /\ fn = "rolling_anomaly_scores")
         => IF RollingStaticError THEN end = window_size /\ records = <<>>
            ELSE /\ Len(records) = end - window_size
                 /\ \/ \E i \in (end - window_size + 1)..end :
                          ~InRange(draws[i], n_outcomes)
                    \/ \E j \in 1..n_outcomes :
                          baseline_probabilities[j] = Zero
                 /\ end > window_size
                      => \A i \in 1..(end - 1) : InRange(draws[i], n_outcomes)

\* ewma_estimator failed on an observation at a position k > 0
C8_Witness ==
    /\ pc = "raised" /\ fn = "ewma_estimator"
    /\ ~EwmaStaticError
    /\ t >= 1

----------------------------------------------------------------------------
\* the chi-square statistic of the window draws[k .. k + window_size), k
\* counted from 0, against the baseline
WindowChiSquare(k) ==
    VSum([j \in 1..n_outcomes |->
            LET o == Cardinality({i \in (k + 1)..(k + window_size) :
                                    draws[i] = j - 1})
                e == RMul(baseline_probabilities[j], <<window_size, 1>>)
                d == RSub(<<o, 1>>, e)
            IN  RDiv(RMul(d, d), e)])

\* C9 as stated: for a baseline with non-negative entries that sum to 1, a
\* window_size > 1 and at least window_size draws, all in range,
\* rolling_anomaly_scores returns len(draws) - window_size + 1 records, the
\* k-th computed from draws[k .. k + window_size) with step k + window_size - 1.
C9_OneRecordPerWindow ==
    (/\ fn = "rolling_anomaly_scores"
     /\ \A j \in 1..n_outcomes : RLe(Zero, baseline_probabilities[j])
     /\ VSum(baseline_probabilities) = One
     /\ window_size > 1 /\ Len(draws) >= window_size
     /\ \A i \in 1..Len(draws) : InRange(draws[i], n_outcomes))
      => /\ pc # "raised"
         /\ pc = "returned"
              => /\ Len(records) = Len(draws) - window_size + 1
                 /\ \A k \in 0..(Len(records) - 1) :
                       /\ records[k + 1].step = k + window_size - 1
                       /\ records[k + 1].chi2_stat = WindowChiSquare(k)

----------------------------------------------------------------------------
\* C10 as stated: rolling_anomaly_scores fails without a record whenever
\* window_size <= 1, there are fewer draws than window_size, the baseline has
\* a negative entry or the baseline does not sum to 1.
C10_RollingRejectsInvalid ==
    (/\ fn = "rolling_anomaly_scores"
     /\ \/ window_size <= 1
        \/ Len(draws) < window_size
        \/ \E j \in 1..n_outcomes : RLt(baseline_probabilities[j], Zero)
        \/ VSum(baseline_probabilities) # One)
      => pc = "raised" /\ records = <<>>

\* C10, amended: ... or the sum of the baseline is not np.isclose to 1, that
\* is, differs from 1 by more than 1e-8 + 1e-5.
C10_RollingRejectsOutsideTolerance ==
    (/\ fn = "rolling_anomaly_scores"
     /\ \/ window_size <= 1
        \/ Len(draws) < window_size
        \/ \E j \in 1..n_outcomes : RLt(baseline_probabilities[j], Zero)
        \/ RLt(<<1001, 100000000>>,
               RSub(RMax(VSum(baseline_probabilities), One),
                    RMin(VSum(baseline_probabilities), One))))
      => pc = "raised" /\ records = <<>>

\* a call rejected only because its baseline sums to 3/4
C10_Witness ==
    /\ fn = "rolling_anomaly_scores" /\ pc = "raised" /\ records = <<>>
    /\ window_size > 1 /\ Len(draws) >= window_size
    /\ \A j \in 1..n_outcomes : RLe(Zero, baseline_probabilities[j])
    /\ VSum(baseline_probabilities) = <<3, 4>>

----------------------------------------------------------------------------
\* the rows written so far have length n_outcomes and entries in
\* [-clip, clip] whatever the generator yields, so that 1 + beta_i > 0 and
\* wamecu_probabilities accepts each of them
RowsBoundedAndAccepted ==
    \A k \in 1..Len(betas) :
       /\ Len(betas[k]) = config.n_outcomes
       /\ \A i \in 1..config.n_outcomes :
             /\ FSigns(FAdd(betas[k][i], FConst(config.clip))) \subseteq {0, 1}
             /\ FSigns(FAdd(betas[k][i], FConst(RNeg(config.clip))))
                   \subseteq {-1, 0}
             /\ FSigns(FAdd(FConst(One), betas[k][i])) = {1}
       /\ UtilsRaisesOn(config.n_outcomes, betas[k]) = {FALSE}

\* C11 as stated: for every valid BetaDriftConfig (n_outcomes >= 2,
\* n_steps > 0, 0 < clip < 1) beta_drift does not fail and returns n_steps
\* rows of length n_outcomes whose entries all lie in [-clip, clip]; every
\* row has 1 + beta_i > 0 and is accepted by wamecu_probabilities, and the
\* series is accepted by stream_draws.
C11_ValidConfigReturnsRows ==
    (/\ fn = "beta_drift"
     /\ config.n_outcomes >= 2 /\ config.n_steps > 0
     /\ RLt(Zero, config.clip) /\ RLt(config.clip, One))
      => /\ pc # "raised"
         /\ pc = "returned" => /\ Len(betas) = config.n_steps
                               /\ ~StreamRejects(betas)
         /\ RowsBoundedAndAccepted

\* C11, amended: beta_drift fails, without a row, exactly when
\* n_outcomes < 2, n_steps <= 0, clip is outside (0,1), the seed is a
\* negative integer or walk_scale < 0; for every other BetaDriftConfig it
\* returns n_steps rows of length n_outcomes whose entries all lie in
\* [-clip, clip], whatever the generator yields; every row has
\* 1 + beta_i > 0 and is accepted by wamecu_probabilities, and the series is
\* accepted by stream_draws.
C11_DriftRowsBoundedAndAccepted ==
    fn = "beta_drift" =>
      \E rejected \in {\/ config.n_outcomes < 2
                        \/ config.n_steps <= 0
                        \/ ~RLt(Zero, config.clip)
                        \/ ~RLt(config.clip, One)
                        \/ (config.seed # NoSeed /\ config.seed < 0)
                        \/ RLt(config.walk_scale, Zero)} :
         /\ pc = "raised" => rejected
         /\ rejected => (pc # "returned" /\ betas = <<>> /\ t = 0)
         /\ pc = "returned" => /\ Len(betas) = config.n_steps
                               /\ ~StreamRejects(betas)
         /\ RowsBoundedAndAccepted

\* a returned series of two rows whose second row holds a value that the
\* clipping had to bound: the walk had left [-clip, clip] for some values
\* of the normal deviates
C11_Witness ==
    /\ fn = "beta_drift" /\ pc = "returned"
    /\ Len(betas) = 2
    /\ RLt(Zero, config.walk_scale)
    /\ unclipped # betas[2]
    /\ \E p \in betas[2][1].s :
          p[1][1] = "clip" /\ p[1][2] = unclipped[1] /\ p[1][3] = config.clip

----------------------------------------------------------------------------
\* C12 as stated: at every step of beta_drift, also with the sinusoid
\* enabled, the running coefficients sum to 0 immediately before the
\* clipping.
C12_ZeroSumBeforeClipping ==
    (fn = "beta_drift" /\ unclipped # <<>>) => FSum(unclipped) = FConst(Zero)

\* C12, what the code does: the coefficients sum to 0 right after the
\* recentring; the sinusoid is added to outcome 0 after it, so immediately
\* before the clipping the sum equals the sinusoid term of that step when
\* the sinusoid is enabled, and 0 when it is disabled.
C12_SumBeforeClippingIsSinusoid ==
    (fn = "beta_drift" /\ unclipped # <<>>) =>
      FSum(unclipped) = IF config.sin_period > 0 /\ config.sin_amplitude # Zero
                        THEN Sinusoid(config, t - 1, phase)
                        ELSE FConst(Zero)

\* a second step with noise and the default period after which the sum
\* before clipping is the sinusoid term, not 0
C12_Witness ==
    /\ fn = "beta_drift" /\ t = 2
    /\ config.walk_scale # Zero
    /\ config.sin_amplitude # Zero /\ config.sin_period = 120
    /\ \E p \in unclipped[2].s : p[1][1] = "normal"
    /\ FSum(unclipped) = FScale(config.sin_amplitude,
                                FSym(<<"sin", (<<1, 120>>), phase>>))

----------------------------------------------------------------------------
\* sum_i (o_i - e_i)^2 / e_i for the arguments of the call
ChiSquareSum ==
    VSum([i \in 1..Len(args.observed) |->
            LET d == RSub(args.observed[i], args.expected[i])
            IN  RDiv(RMul(d, d), args.expected[i])])

\* C13: the chi-square test fails exactly on a shape mismatch or an expected
\* count <= 0; otherwise it returns sum_i (o_i - e_i)^2 / e_i with
\* len(observed) - 1 degrees of freedom, a statistic >= 0 that is > 0 when
\* observed differs from expected; anomaly.chi_square_statistic and
\* metrics.chi_square_test give the same outcome.
C13_ChiSquare ==
    fn = "chi_square_statistic" =>
      /\ result.anomaly = result.metrics
      /\ result.anomaly.raised <=>
           \/ Len(args.observed) # Len(args.expected)
           \/ \E i \in 1..Len(args.expected) : RLe(args.expected[i], Zero)
      /\ ~result.anomaly.raised =>
           /\ result.anomaly.value.statistic = ChiSquareSum
           /\ result.anomaly.value.dof = Len(args.observed) - 1
           /\ RLe(Zero, result.anomaly.value.statistic)
           /\ args.observed # args.expected
                => RLt(Zero, result.anomaly.value.statistic)

\* a returned statistic > 0 for counts over three outcomes
C13_Witness ==
    /\ fn = "chi_square_statistic" /\ pc = "returned"
    /\ Len(args.observed) = 3
    /\ RLt(Zero, result.metrics.value.statistic)
    /\ result.anomaly.value.dof = 2

----------------------------------------------------------------------------
\* |x - 1| > eps
FartherFromOne(x, eps) == RLt(eps, RSub(RMax(x, One), RMin(x, One)))

\* C14 as stated: entropy_gap fails exactly when the shapes differ or the
\* sum of either input differs from 1 by more than 1e-9.
C14_EntropyGapTolerance ==
    fn = "entropy_gap" =>
      (result.raised <=>
         \/ Len(args.empirical_prob) # Len(args.baseline_prob)
         \/ FartherFromOne(VSum(args.empirical_prob), <<1, 1000000000>>)
         \/ FartherFromOne(VSum(args.baseline_prob), <<1, 1000000000>>))

\* C14, amended: the tolerance is that of np.isclose, 1e-8 + 1e-5.
C14_EntropyGapIsClose ==
    fn = "entropy_gap" =>
      (result.raised <=>
         \/ Len(args.empirical_prob) # Len(args.baseline_prob)
         \/ FartherFromOne(VSum(args.empirical_prob), <<1001, 100000000>>)
         \/ FartherFromOne(VSum(args.baseline_prob), <<1001, 100000000>>))

\* a call rejected only for the sum of its empirical_prob
C14_Witness ==
    /\ fn = "entropy_gap" /\ result.raised
    /\ Len(args.empirical_prob) = Len(args.baseline_prob)
    /\ VSum(args.baseline_prob) = One
    /\ VSum(args.empirical_prob) = <<1001, 1000>>

----------------------------------------------------------------------------
\* C15: beta_drift fails when n_outcomes < 2, n_steps <= 0 or clip is
\* outside (0,1); ewma_estimator fails when n_outcomes < 2 or alpha is
\* outside (0,1]; kalman_tracker fails when n_outcomes < 2, process_var <= 0,
\* observation_var <= 0 or the initial state has a length other than
\* n_outcomes; in each case no output is produced.
C15_StaticParametersRejected ==
    /\ (/\ fn = "beta_drift"
        /\ \/ config.n_outcomes < 2
           \/ config.n_steps <= 0
           \/ RLe(config.clip, Zero) \/ RLe(One, config.clip))
         => pc = "raised" /\ betas = <<>>
    /\ (/\ fn = "ewma_estimator"
        /\ \/ n_outcomes < 2
           \/ RLe(alpha, Zero) \/ RLt(One, alpha))
         => pc = "raised" /\ beta_history = <<>> /\ t = 0
    /\ (/\ fn = "kalman_tracker"
        /\ \/ n_outcomes < 2
           \/ RLe(process_var, Zero) \/ RLe(observation_var, Zero)
           \/ initial.given /\ Len(initial.value) # n_outcomes)
         => pc = "raised" /\ beta_history = <<>> /\ t = 0

\* kalman_tracker rejected only for the length of its initial state, with
\* observations to process
C15_Witness ==
    /\ fn = "kalman_tracker" /\ pc = "raised"
    /\ n_outcomes >= 2
    /\ RLt(Zero, process_var) /\ RLt(Zero, observation_var)
    /\ initial.given /\ Len(initial.value) # n_outcomes
    /\ Len(observations) >= 2 /\ AllInRange(observations, n_outcomes)

----------------------------------------------------------------------------
\* C16: an invocation of beta_drift, simulate_draws or stream_draws with a
\* seed (not None) ends as every earlier invocation of the same function
\* with the same arguments and seed did, with an identical result,
\* whatever was invoked in between.
C16_SeededCallsRepeat ==
    (/\ fn \in {"beta_drift", "simulate_draws", "stream_draws"}
     /\ pc \in {"returned", "raised"})
      => \A k \in 1..Len(calls) :
            (/\ calls[k].fn = fn
             /\ calls[k].args = (IF fn = "beta_drift" THEN config ELSE args)
             /\ calls[k].args.seed # NoSeed)
              => Outcome = calls[k].result

\* a beta_drift with noise, or a stream_draws whose draws are not all the
\* same, has returned a second time after another function had drawn from
\* a generator of the same seed in between
C16_Witness ==
    /\ Len(calls) = 2 /\ pc = "returned"
    /\ calls[1].fn = fn /\ calls[2].fn # fn
    /\ calls[2].args.seed = calls[1].args.seed
    /\ ~calls[2].result.raised
    /\ \/ /\ fn = "beta_drift" /\ config = calls[1].args
          /\ Len(betas) = 2 /\ betas[1] # betas[2]
          /\ RLt(Zero, config.walk_scale)
       \/ /\ fn = "stream_draws" /\ args = calls[1].args
          /\ Len(result.value) = 2
          /\ result.value[1] # result.value[2]

----------------------------------------------------------------------------
\* the number of outcomes the diagnostic works with
DiagnosticOutcomes ==
    IF fn = "rolling_anomaly_scores" THEN Len(baseline_probabilities)
    ELSE n_outcomes

\* C17 as stated: rolling_anomaly_scores (N = len(baseline)) and
\* outcome_correlation_matrix (N = n_outcomes) fail whenever the draw
\* sequence holds a value < 0 or >= N, and never return a result in which
\* such a draw was counted as some outcome.
C17_OutOfRangeDrawsFail ==
    (/\ fn \in {"rolling_anomaly_scores", "outcome_correlation_matrix"}
     /\ pc \in {"returned", "raised"}
     /\ ~AllInRange(draws, DiagnosticOutcomes))
      => /\ pc = "raised"
         /\ fn = "outcome_correlation_matrix" => result = Raised
         /\ fn = "rolling_anomaly_scores" => pc # "returned"

----------------------------------------------------------------------------
\* two successful calls of batch_update, and no other call, were made on a
\* fresh estimator with valid parameters
TwoBatches ==
    /\ estimator # NoEstimator /\ estimator.n_outcomes >= 2
    /\ RLt(Zero, estimator.smoothing) /\ RLe(estimator.smoothing, One)
    /\ Len(calls) = 2
    /\ \A k \in 1..2 : calls[k].fn = "batch_update" /\ ~calls[k].raised

\* the probabilities ewma_estimator tracked while the first batch was
\* consumed, the probabilities batch_update stored after it (the law of the
\* clipped beta), and the beta of one batch_update of both batches on a
\* fresh estimator
TrackedAfterFirst ==
    EwmaTracked(VFull(estimator.n_outcomes, Rat(1, estimator.n_outcomes)),
                calls[1].observations, 0, estimator.n_outcomes,
                estimator.smoothing)
StoredAfterFirst ==
    UtilsWamecuProbabilities(estimator.n_outcomes,
        EwmaBeta(TrackedAfterFirst, estimator.n_outcomes)).value
BetaOfOneBatch ==
    EwmaBeta(EwmaTracked(TrackedAfterFirst, calls[2].observations, 0,
                         estimator.n_outcomes, estimator.smoothing),
             estimator.n_outcomes)

\* C18: after batch_update(a) the estimator stores the law of the clipped
\* beta, and batch_update(b) continues the EWMA from that vector, whereas
\* batch_update(a followed by b) on a fresh estimator continues from the
\* tracked vector; the two beta estimates agree when the stored vector is
\* the tracked one, and there are sequences for which both differ (the
\* witness).
C18_RoundTripDiscrepancy ==
    TwoBatches =>
        /\ estimator.beta =
             EwmaBeta(EwmaTracked(StoredAfterFirst, calls[2].observations, 0,
                                  estimator.n_outcomes, estimator.smoothing),
                      estimator.n_outcomes)
        /\ BetaOfOneBatch =
             AdaptiveBatchUpdate(
                 AdaptiveInit(estimator.n_outcomes, estimator.smoothing).value,
                 calls[1].observations \o calls[2].observations).estimator.beta
        /\ StoredAfterFirst = TrackedAfterFirst
             => estimator.beta = BetaOfOneBatch

\* batch_update(a) stored a vector other than the tracked one, and
\* batch_update(b) then gave a beta other than that of batch_update(a, b)
C18_Witness ==
    /\ TwoBatches
    /\ StoredAfterFirst # TrackedAfterFirst
    /\ estimator.beta # BetaOfOneBatch

----------------------------------------------------------------------------
\* C19: for an estimator built with n_outcomes >= 2 and smoothing in (0, 1],
\* after any successful calls of update and batch_update the stored
\* probabilities have length n_outcomes, entries >= 0 and sum 1, beta_ has
\* length n_outcomes and entries in [-0.99, 0.99], and wamecu_probabilities
\* accepts beta_.
C19_EstimatorFieldsValid ==
    (/\ estimator # NoEstimator /\ estimator.n_outcomes >= 2
     /\ RLt(Zero, estimator.smoothing) /\ RLe(estimator.smoothing, One)
     /\ \A k \in 1..Len(calls) : ~calls[k].raised)
      => /\ Len(estimator.probabilities) = estimator.n_outcomes
         /\ \A i \in 1..estimator.n_outcomes :
               RLe(Zero, estimator.probabilities[i])
         /\ VSum(estimator.probabilities) = One
         /\ Len(estimator.beta) = estimator.n_outcomes
         /\ \A i \in 1..estimator.n_outcomes :
               /\ RLe(RNeg(ClipBound), estimator.beta[i])
               /\ RLe(estimator.beta[i], ClipBound)
         /\ ~UtilsWamecuProbabilities(estimator.n_outcomes,
                                      estimator.beta).raised

\* an update and then a batch_update have succeeded, beta_ has reached the
\* clip bound
C19_Witness ==
    /\ estimator # NoEstimator /\ estimator.n_outcomes >= 2
    /\ RLt(Zero, estimator.smoothing) /\ RLe(estimator.smoothing, One)
    /\ Len(calls) = 2 /\ \A k \in 1..2 : ~calls[k].raised
    /\ {calls[1].fn, calls[2].fn} = {"update", "batch_update"}
    /\ \E i \in 1..estimator.n_outcomes : estimator.beta[i] = ClipBound

====
